---- MODULE Spec2Model ----
(***************************************************************************)
(* go-openbmclapi: the signed-URL check, the request router and the        *)
(* download dispatcher (src/handler.go, src/unnamed/part_002).             *)
(*                                                                         *)
(* Strings are tuples of one-character strings, so that prefixes, digits   *)
(* and concatenations are computed as the code computes them.  Integers    *)
(* of 64 bits are kept as a sign and a magnitude (a tuple of digits, most   *)
(* significant first, no leading zero), so that the overflow of            *)
(* strconv.ParseInt is an error exactly where it is one in the code.       *)
(***************************************************************************)
EXTENDS Integers, Sequences, FiniteSets, TLC

VARIABLES
    \* ---- the signature check on its own (SpecSign)
    sgReq,      \* checkQuerySign's arguments: [hash, secret, s, e]
    sgOrigin,   \* what the authority signed, [hash, secret, expiry], or NoOrigin
    sgTamper,   \* the argument changed after signing: "none", "secret", "hash", "e"
    sgNow,      \* the value time.Now().UnixMilli() had in the last check
    sgRes,      \* the last result of checkQuerySign: "none", "true", "false"
    \* ---- the cluster (Spec)
    storageWeights,      \* cr.storageWeights, one weight per storage of cr.storages
    storageTotalWeight,  \* cr.storageTotalWeight
    shouldEnable,        \* cr.shouldEnable
    fileset,             \* the file index behind cr.CachedFileSize: hash -> size
    hits, hbts,          \* cr.hits, cr.hbts
    statHits, statHbts,  \* cr.statHits, cr.statHbts
    \* ---- the request being served by Cluster.ServeHTTP
    pc,         \* "idle", "handleDownload" (at its entry), "walk" (inside its storage walk),
                \* "measure" (at the ServeMeasure call), "done"
    req,        \* the request: [method, path, query, noRecord, range]; the context flag
                \* and the Range header are filled in where handleDownload reads them
    reqNow,     \* the value of time.Now().UnixMilli() read by checkQuerySign
    dl,         \* handleDownload's locals: hash, keepaliveRec, size, err, sto and the walk's position
    resp,       \* the status lines written to rw, in order: [by, status]
    extras,     \* the request's AccessLogExtraCtxKey map
    calls,      \* the collaborators invoked for the request, in order
    visits,     \* the ServeDownload calls of the walk, in order: [sto, sz, er]
    atEntry,    \* the four counters as they were when the request arrived
    nreq,       \* requests received so far
    \* ---- one call of forEachFromRandomIndex / forEachFromRandomIndexWithPossibility (SpecIter)
    itArgs,     \* the call's arguments: [kind, leng, poss, total]
    itCb,       \* the indices at which cb returns true
    itFrame,    \* the call's locals: [start, phase, i]
    itVisited,  \* the indices cb was invoked on, in order
    itRet,      \* "none" while the call has not returned, else "true" or "false"
    \* ---- a BufSlots pool and the goroutines that use it (SpecBuf)
    bsC,        \* the channel s.c: the slots in the pool, oldest first
    bsPc,       \* per goroutine: "idle", "select" (inside Alloc), "holding", "cancelled"
    bsGot,      \* per goroutine: what its last Alloc returned, [id, buf, free]
    bsCtx,      \* per goroutine: its context is done
    \* ---- the access-record middleware and the aggregator goroutine (SpecRecord)
    clEnabled,  \* the cluster is enabled
    clLife,     \* the enable transitions so far: the number of the current or last enabled lifetime
    recordCh,   \* the channel recordCh, oldest record first
    agPc,       \* the aggregator: "waitEnable" (line 200), "loop" (line 213),
                \* "waitReenable" (line 245), "terminated"
    agDisabled, \* the lifetime whose Disabled() channel the aggregator holds
    agWait,     \* the enable transition whose WaitForEnable() channel the aggregator waits on
    agAcc,      \* the aggregator's total, totalUsed, totalBytes and uas
    accesses,   \* cr.stats.Accesses
    agLast,     \* the record the aggregator received last, and the lifetime it received it in
    mwLast,     \* the last request through the middleware: what it was and what became of its record
    mwServed,   \* requests that went through the middleware
    \* ---- the host-redirect middleware of GetHandler (SpecHost)
    hrCfg,      \* the configuration: [publicHosts, publicPort]
    hrReq,      \* the request: [host, path, rawQuery], and the host name its sender means
    hrOut,      \* what the middleware did: [status, location, contentLength, next]
    \* ---- the Range header of a download, from handleDownload to the record (SpecRange)
    rgHeader,   \* req.Header.Get("Range")
    rgOut,      \* the request's extras and the isRange of its record, once handled
    \* ---- httpMiddleWareHandler serving one request (SpecChain)
    chMiddles,  \* len(m.middles)
    chPc,       \* "idle", "running", "done", "panicked"
    chI,        \* i of ServeHTTP
    chWrappers, \* the handlers getNext has made: [mid, called]
    chStack,    \* the handlers that are running: [mid, next, nextCalls]
    chTrace,    \* what has run, in order: j for m.middles[j], len(m.middles) for m.final
    chPanic     \* the panic that ended the request, "" for none

sgVars == <<sgReq, sgOrigin, sgTamper, sgNow, sgRes>>

crVars == <<storageWeights, storageTotalWeight, shouldEnable, fileset, hits, hbts, statHits, statHbts>>

reqVars == <<pc, req, reqNow, dl, resp, extras, calls, visits, atEntry, nreq>>

itVars == <<itArgs, itCb, itFrame, itVisited, itRet>>

\* the state of the utility functions checked on their own
bsVars == <<bsC, bsPc, bsGot, bsCtx>>

recVars == <<clEnabled, clLife, recordCh, agPc, agDisabled, agWait, agAcc, accesses, agLast, mwLast, mwServed>>

hrVars == <<hrCfg, hrReq, hrOut>>

rgVars == <<rgHeader, rgOut>>

chVars == <<chMiddles, chPc, chI, chWrappers, chStack, chTrace, chPanic>>

libVars == <<itVars, bsVars, recVars, hrVars, rgVars, chVars>>

vars == <<sgVars, crVars, reqVars, libVars>>

(***************************************************************************)
(* Bounds of the model.                                                    *)
(***************************************************************************)
\* the longest `e` query value enumerated over EAlphabet
MaxELen == 2

\* the most storages a cluster is configured with
MaxStorages == 2

\* the most bytes one ServeDownload reports as served
MaxSz == 1

\* the largest value drawn from the random channel rd
MaxRand == 2

\* requests received in one behaviour
MaxRequests == 1

\* the longest index range given to the iterators
MaxLeng == 3

\* the largest weight of one index
MaxWeight == 2

\* the size given to NewBufSlots; one goroutine more than that uses the pool
BufSize == 2

\* the capacity of recordCh: make(chan record, 1024), scaled down
RecordCap == 1

\* requests that go through the access-record middleware in one behaviour
MaxServed == 2

\* enable transitions of the cluster in one behaviour
MaxLives == 2

\* the most public hosts of a configuration
MaxHosts == 2

\* the longest text after "bytes=" enumerated over RangeAlphabet
MaxRangeLen == 3

\* the most middlewares registered with Use
MaxMiddles == 4

\* the most times one middleware invokes its next handler
MaxNextCalls == 3

(***************************************************************************)
(* The utility functions when no call of them is in progress.              *)
(***************************************************************************)
IterAtRest ==
    /\ itArgs = <<>> /\ itCb = {} /\ itFrame = <<>> /\ itVisited = <<>> /\ itRet = "none"

BufAtRest ==
    /\ bsC = <<>> /\ bsPc = <<>> /\ bsGot = <<>> /\ bsCtx = <<>>

RecordAtRest ==
    /\ clEnabled = FALSE /\ clLife = 0 /\ recordCh = <<>>
    /\ agPc = "waitEnable" /\ agDisabled = 0 /\ agWait = 0 /\ agAcc = <<>>
    /\ accesses = <<>> /\ agLast = <<>> /\ mwLast = <<>> /\ mwServed = 0

HostAtRest == hrCfg = <<>> /\ hrReq = <<>> /\ hrOut = <<>>

RangeAtRest == rgHeader = <<>> /\ rgOut = <<>>

ChainAtRest ==
    /\ chMiddles = 0 /\ chPc = "idle" /\ chI = 0 /\ chWrappers = <<>>
    /\ chStack = <<>> /\ chTrace = <<>> /\ chPanic = ""

LibAtRest == IterAtRest /\ BufAtRest /\ RecordAtRest /\ HostAtRest /\ RangeAtRest /\ ChainAtRest

SignAtRest ==
    /\ sgReq = <<>> /\ sgOrigin = <<>> /\ sgTamper = "none" /\ sgRes = "none"
    /\ sgNow = [neg |-> FALSE, mag |-> <<>>]

(***************************************************************************)
(* Characters and digits.                                                  *)
(***************************************************************************)
Digits36 == <<"0","1","2","3","4","5","6","7","8","9","a","b","c","d","e","f","g","h","i","j","k","l","m","n","o","p","q","r","s","t","u","v","w","x","y","z">>

UpperAlpha == <<"A","B","C","D","E","F","G","H","I","J","K","L","M","N","O","P","Q","R","S","T","U","V","W","X","Y","Z">>

Range(f) == {f[i] : i \in DOMAIN f}

IndexOf(seq, c) == CHOOSE i \in 1..Len(seq) : seq[i] = c

\* strconv's lower(c): an upper-case letter becomes its lower-case letter
Lower(c) == IF c \in Range(UpperAlpha) THEN Digits36[IndexOf(UpperAlpha, c) + 10] ELSE c

\* the value of every byte that is a digit in some base up to 36
DigitTable == [c \in Range(Digits36) \cup Range(UpperAlpha) |-> IndexOf(Digits36, Lower(c)) - 1]

\* the digit a byte stands for in strconv.ParseUint, or -1 (a syntax error)
DigitVal(c) == IF c \in DOMAIN DigitTable THEN DigitTable[c] ELSE -1

Reverse(s) == [i \in 1..Len(s) |-> s[Len(s) + 1 - i]]

RECURSIVE StripZeros(_)
StripZeros(m) == IF m # <<>> /\ Head(m) = 0 THEN StripZeros(Tail(m)) ELSE m

\* 2^k as a magnitude in base b, for the widths and bases the code uses
\* (cutoff and maxVal of strconv.ParseInt / ParseUint with bitSize 64)
Pow2Mag(k, b) ==
    CASE
         k = 63 /\ b = 36 -> <<1, 34, 2, 25, 0, 18, 19, 3, 2, 14, 8, 14, 8>>
      [] k = 64 /\ b = 36 -> <<3, 32, 5, 14, 1, 1, 2, 6, 4, 28, 16, 28, 16>>
      [] k = 63 /\ b = 10 -> <<9, 2, 2, 3, 3, 7, 2, 0, 3, 6, 8, 5, 4, 7, 7, 5, 8, 0, 8>>
      [] k = 64 /\ b = 10 -> <<1, 8, 4, 4, 6, 7, 4, 4, 0, 7, 3, 7, 0, 9, 5, 5, 1, 6, 1, 6>>

\* a < b on magnitudes
MagLess(a, b) ==
    IF Len(a) # Len(b) THEN Len(a) < Len(b)
    ELSE \E i \in 1..Len(a) : a[i] < b[i] /\ \A j \in 1..(i - 1) : a[j] = b[j]

Big(neg, mag) == [neg |-> neg /\ mag # <<>>, mag |-> mag]

\* x < y on signed 64-bit values
BigLess(x, y) ==
    IF x.neg # y.neg THEN x.neg
    ELSE IF x.neg THEN MagLess(y.mag, x.mag) ELSE MagLess(x.mag, y.mag)

(***************************************************************************)
(* strconv.ParseUint / strconv.ParseInt as called by checkQuerySign and    *)
(* strconv.Atoi.  The result is [err, val]; err is "nil", "syntax" or      *)
(* "range".  Where a string both overflows and holds a bad byte the code   *)
(* reports the one met first; the callers only test err != nil, and the    *)
(* model reports "syntax".                                                 *)
(***************************************************************************)
ParseUint(s, base, bitSize) ==
    IF s = <<>> THEN [err |-> "syntax", mag |-> <<>>]
    ELSE IF \E i \in 1..Len(s) : DigitVal(s[i]) < 0 \/ DigitVal(s[i]) >= base
         THEN [err |-> "syntax", mag |-> <<>>]
    ELSE LET m == StripZeros([i \in 1..Len(s) |-> DigitVal(s[i])])
         IN  IF MagLess(m, Pow2Mag(bitSize, base))
             THEN [err |-> "nil", mag |-> m]
             ELSE [err |-> "range", mag |-> m]

ParseInt(s, base, bitSize) ==
    IF s = <<>> THEN [err |-> "syntax", val |-> Big(FALSE, <<>>)]
    ELSE LET neg    == Head(s) = "-"
             rest   == IF Head(s) = "+" \/ Head(s) = "-" THEN Tail(s) ELSE s
             un     == ParseUint(rest, base, bitSize)
             cutoff == Pow2Mag(bitSize - 1, base)
         IN  IF un.err = "syntax" THEN [err |-> "syntax", val |-> Big(FALSE, <<>>)]
             ELSE IF un.err = "range" THEN [err |-> "range", val |-> Big(neg, cutoff)]
             ELSE IF ~neg /\ ~MagLess(un.mag, cutoff) THEN [err |-> "range", val |-> Big(neg, cutoff)]
             ELSE IF neg /\ MagLess(cutoff, un.mag) THEN [err |-> "range", val |-> Big(neg, cutoff)]
             ELSE [err |-> "nil", val |-> Big(neg, un.mag)]

(***************************************************************************)
(* checkQuerySign.  SHA-1 followed by the unpadded base64url encoding is   *)
(* modelled as an injective function of the bytes written to the hash:     *)
(* the digest of m is the 27-byte string Digest(m).                        *)
(***************************************************************************)
Base36 == 36

Int64Bits == 64

Digest(m) == <<"sha1:">> \o m

checkQuerySignInclusive(hash, secret, query, nowMs) ==
    LET before == ParseInt(query.e, Base36, Int64Bits)
    IN  /\ ~(Len(query.s) = 0 \/ Len(query.e) = 0)
        /\ before.err = "nil"
        /\ Digest(secret \o hash \o query.e) = query.s
        /\ ~BigLess(before.val, nowMs)

checkQuerySign(hash, secret, query, nowMs) ==
    LET before == ParseInt(query.e, Base36, Int64Bits)
    IN  /\ ~(Len(query.s) = 0 \/ Len(query.e) = 0)
        /\ before.err = "nil"
        /\ Digest(secret \o hash \o query.e) = query.s
        /\ BigLess(nowMs, before.val)

(***************************************************************************)
(* The authority's side: sign(subject, secret, expiry) gives               *)
(* e = base36(expiry) and s = base64url(SHA1(secret || subject || e)).     *)
(***************************************************************************)
FormatBase36(v) ==
    LET ds == IF v.mag = <<>> THEN <<"0">> ELSE [i \in 1..Len(v.mag) |-> Digits36[v.mag[i] + 1]]
    IN  IF v.neg THEN <<"-">> \o ds ELSE ds

sign(hash, secret, expiry) ==
    LET e == FormatBase36(expiry)
    IN  [s |-> Digest(secret \o hash \o e), e |-> e]

(***************************************************************************)
(* Inputs of the signature check.                                          *)
(***************************************************************************)
EAlphabet == {"0", "a", "A", "+", "-", "_"}

RECURSIVE StringsUpTo(_, _)
StringsUpTo(alphabet, n) ==
    IF n = 0 THEN {<<>>}
    ELSE LET shorter == StringsUpTo(alphabet, n - 1)
         IN  shorter \cup {<<c>> \o s : c \in alphabet, s \in {t \in shorter : Len(t) = n - 1}}

\* the largest int64, the first value past it, the smallest int64, and past it
MaxInt64Str == <<"1","y","2","p","0","i","j","3","2","e","8","e","7">>

EdgeEs == { MaxInt64Str,
            SubSeq(MaxInt64Str, 1, 12) \o <<"8">>,
            <<"-">> \o SubSeq(MaxInt64Str, 1, 12) \o <<"8">>,
            <<"-">> \o SubSeq(MaxInt64Str, 1, 12) \o <<"9">>,
            <<"0">> \o MaxInt64Str }

Es == StringsUpTo(EAlphabet, MaxELen) \cup EdgeEs

Subjects == {<<"a">>, <<"a", "b">>, <<"b">>}

Secrets == {<<"k">>, <<"k", "a">>}

\* 0, 10, 11, 2^63 - 1
Times == { Big(FALSE, <<>>), Big(FALSE, <<10>>), Big(FALSE, <<11>>),
           ParseInt(MaxInt64Str, Base36, Int64Bits).val }

NoOrigin == [hash |-> <<>>, secret |-> <<>>, expiry |-> Big(FALSE, <<>>), signed |-> FALSE]

Garbage == <<"?">>

\* the cluster and the request path at rest, while the signature check is studied alone
AtRest ==
    /\ storageWeights = <<>> /\ storageTotalWeight = 0
    /\ shouldEnable = FALSE
    /\ fileset = <<>>
    /\ hits = 0 /\ hbts = 0 /\ statHits = 0 /\ statHbts = 0
    /\ pc = "idle"
    /\ req = <<>> /\ reqNow = Big(FALSE, <<>>)
    /\ dl = <<>>
    /\ resp = <<>> /\ extras = <<>> /\ calls = <<>> /\ visits = <<>>
    /\ atEntry = <<>>
    /\ nreq = 0

InitSign ==
    /\ AtRest
    /\ LibAtRest
    /\ \E h \in Subjects, k \in Secrets, e \in Es :
         \E s \in {<<>>, Garbage, Digest(k \o h \o e)} :
            sgReq = [hash |-> h, secret |-> k, s |-> s, e |-> e]
    /\ sgOrigin = NoOrigin
    /\ sgTamper = "none"
    /\ sgNow = Big(FALSE, <<>>)
    /\ sgRes = "none"

\* the authority signs (hash, secret, expiry); the node holds the same secret
Sign(h, k, x) ==
    /\ sgRes = "none" /\ ~sgOrigin.signed
    /\ LET q == sign(h, k, x)
       IN  sgReq' = [hash |-> h, secret |-> k, s |-> q.s, e |-> q.e]
    /\ sgOrigin' = [hash |-> h, secret |-> k, expiry |-> x, signed |-> TRUE]
    /\ UNCHANGED <<sgTamper, sgNow, sgRes, crVars, reqVars, libVars>>

\* one of secret, hash, e is changed after signing; s is kept
Tamper(field, v) ==
    /\ sgRes = "none" /\ sgOrigin.signed /\ sgTamper = "none"
    /\ sgReq[field] # v
    /\ sgReq' = [sgReq EXCEPT ![field] = v]
    /\ sgTamper' = field
    /\ UNCHANGED <<sgOrigin, sgNow, sgRes, crVars, reqVars, libVars>>

Verify(t) ==
    /\ sgRes = "none"
    /\ sgNow' = t
    /\ sgRes' = IF checkQuerySign(sgReq.hash, sgReq.secret, [s |-> sgReq.s, e |-> sgReq.e], t)
                THEN "true" ELSE "false"
    /\ UNCHANGED <<sgReq, sgOrigin, sgTamper, crVars, reqVars, libVars>>

NextSign ==
    \/ \E h \in Subjects, k \in Secrets, x \in Times : Sign(h, k, x)
    \/ \E v \in Secrets : Tamper("secret", v)
    \/ \E v \in Subjects : Tamper("hash", v)
    \/ \E v \in Es : Tamper("e", v)
    \/ \E t \in Times : Verify(t)

SpecSign == InitSign /\ [][NextSign]_vars

(***************************************************************************)
(* C4: checkQuerySign returns true iff s and e are non-empty, e is a       *)
(* base-36 signed 64-bit integer, s is the signature over (secret,         *)
(* subject, raw e), and now is strictly less than e; a tuple produced by   *)
(* sign verifies iff now < expiry, and after changing one of secret,       *)
(* subject or e the check fails.                                           *)
(***************************************************************************)
\* e is [+-]?[0-9a-zA-Z]+ with a value in [-2^63, 2^63 - 1]
IsBase36Int64(e) ==
    LET body == IF e # <<>> /\ Head(e) \in {"+", "-"} THEN Tail(e) ELSE e
        mag  == StripZeros([i \in 1..Len(body) |-> DigitVal(body[i])])
        top  == ParseInt(MaxInt64Str, Base36, Int64Bits).val.mag
    IN  /\ body # <<>>
        /\ \A i \in 1..Len(body) : body[i] \in Range(Digits36) \cup Range(UpperAlpha)
        /\ IF Head(e) = "-" THEN ~MagLess(<<1, 34, 2, 25, 0, 18, 19, 3, 2, 14, 8, 14, 8>>, mag) ELSE ~MagLess(top, mag)

C4_CheckQuerySign ==
    sgRes # "none" =>
        /\ sgRes = "true" <=>
              /\ sgReq.s # <<>> /\ sgReq.e # <<>>
              /\ IsBase36Int64(sgReq.e)
              /\ sgReq.s = Digest(sgReq.secret \o sgReq.hash \o sgReq.e)
              /\ BigLess(sgNow, ParseInt(sgReq.e, 36, 64).val)
        /\ (sgOrigin.signed /\ sgTamper = "none") => (sgRes = "true" <=> BigLess(sgNow, sgOrigin.expiry))
        /\ (sgOrigin.signed /\ sgTamper # "none") => sgRes = "false"

\* a signed tuple is checked at the very millisecond of its expiry, and is refused
C4_Witness ==
    /\ sgOrigin.signed /\ sgTamper = "none" /\ sgRes = "false"
    /\ sgNow = sgOrigin.expiry
    /\ sgOrigin.expiry.mag # <<>>

(***************************************************************************)
(* The request path: Cluster.ServeHTTP and Cluster.handleDownload.         *)
(***************************************************************************)
DownloadPrefix == <<"/","d","o","w","n","l","o","a","d","/">>

MeasurePrefix == <<"/","m","e","a","s","u","r","e","/">>

ApiPrefix == <<"/","a","p","i","/">>

DashboardPrefix == <<"/","d","a","s","h","b","o","a","r","d","/">>

BmclapiPrefix == <<"/","b","m","c","l","a","p","i","/">>

BytesPrefix == <<"b","y","t","e","s","=">>

\* strings.HasPrefix
HasPrefix(str, prefix) == Len(str) >= Len(prefix) /\ SubSeq(str, 1, Len(prefix)) = prefix

\* str[len(prefix):]
After(str, prefix) == SubSeq(str, Len(prefix) + 1, Len(str))

\* strings.Cut for a one-byte separator: [before, found]
Cut(str, sep) ==
    IF \E i \in 1..Len(str) : str[i] = sep
    THEN LET i == CHOOSE k \in 1..Len(str) : str[k] = sep /\ \A j \in 1..(k - 1) : str[j] # sep
         IN  [before |-> SubSeq(str, 1, i - 1), found |-> TRUE]
    ELSE [before |-> str, found |-> FALSE]

\* textproto.TrimString: leading and trailing spaces and tabs are dropped
RECURSIVE TrimString(_)
TrimString(str) ==
    IF str = <<>> THEN str
    ELSE IF Head(str) \in {" ", "\t"} THEN TrimString(Tail(str))
    ELSE IF str[Len(str)] \in {" ", "\t"} THEN TrimString(SubSeq(str, 1, Len(str) - 1))
    ELSE str

Base10 == 10

\* parseRangeFirstStart: [start, ok]; start is a signed 64-bit value
parseRangeSuffixZero(rg) ==
    IF ~HasPrefix(rg, BytesPrefix) THEN [start |-> Big(FALSE, <<>>), ok |-> FALSE]
    ELSE LET first == Cut(After(rg, BytesPrefix), ",").before
             dash  == Cut(first, "-")
             num   == TrimString(dash.before)
             start == ParseInt(num, Base10, Int64Bits)
         IN  IF ~dash.found THEN [start |-> Big(FALSE, <<>>), ok |-> FALSE]
             ELSE IF num = <<>> THEN [start |-> Big(FALSE, <<>>), ok |-> TRUE]
             ELSE IF start.err # "nil" THEN [start |-> Big(FALSE, <<>>), ok |-> FALSE]
             ELSE [start |-> start.val, ok |-> TRUE]

parseRangeFirstStart(rg) ==
    IF ~HasPrefix(rg, BytesPrefix) THEN [start |-> Big(FALSE, <<>>), ok |-> FALSE]
    ELSE LET first == Cut(After(rg, BytesPrefix), ",").before
             dash  == Cut(first, "-")
             num   == TrimString(dash.before)
             start == ParseInt(num, Base10, Int64Bits)
         IN  IF ~dash.found THEN [start |-> Big(FALSE, <<>>), ok |-> FALSE]
             ELSE IF num = <<>> THEN [start |-> Big(TRUE, <<1>>), ok |-> TRUE]
             ELSE IF start.err # "nil" THEN [start |-> Big(FALSE, <<>>), ok |-> FALSE]
             ELSE [start |-> start.val, ok |-> TRUE]

\* strconv.Atoi on a 64-bit platform
Atoi(str) == ParseInt(str, Base10, Int64Bits)

\* the largest measure size the router accepts
MeasureMax == 200

\* a small natural number as a magnitude in base 10
RECURSIVE NatMag(_)
NatMag(n) == IF n = 0 THEN <<>> ELSE NatMag(n \div 10) \o <<n % 10>>

\* the value of a magnitude in base 10 (used for magnitudes within MeasureMax)
RECURSIVE MagNat(_)
MagNat(m) == IF m = <<>> THEN 0 ELSE 10 * MagNat(SubSeq(m, 1, Len(m) - 1)) + m[Len(m)]

HexChars == {"0","1","2","3","4","5","6","7","8","9","a","b","c","d","e","f"}

\* utils.IsHex: every byte is a lower-case hexadecimal digit
IsHex(str) == \A i \in 1..Len(str) : str[i] \in HexChars

\* hex(MD5("")) and hex(SHA1(""))
MD5Empty == <<"d","4","1","d","8","c","d","9","8","f","0","0","b","2","0","4","e","9","8","0","0","9","9","8","e","c","f","8","4","2","7","e">>

SHA1Empty == <<"d","a","3","9","a","3","e","e","5","e","6","b","4","b","0","d","3","2","5","5","b","f","e","f","9","5","6","0","1","8","9","0","a","f","d","8","0","7","0","9">>

emptyHashesMD5Only == {MD5Empty}

emptyHashes == {MD5Empty, SHA1Empty}

\* SetAccessInfo(req, key, value)
SetAccessInfo(info, key, value) ==
    [k \in DOMAIN info \cup {key} |-> IF k = key THEN value ELSE info[k]]

\* cr.CachedFileSize(hash): [size, ok]
CachedFileSize(hash) ==
    IF hash \in DOMAIN fileset THEN [size |-> fileset[hash], ok |-> TRUE]
    ELSE [size |-> 0, ok |-> FALSE]

\* randIntn(n) for the value rn read from the channel rd
randIntn(rn, n) == rn % n

\* the scan of forEachFromRandomIndexWithPossibility for the start index (from 0)
RECURSIVE StartScanInclusive(_, _, _)
StartScanInclusive(poss, i, n) ==
    IF i > Len(poss) THEN 0
    ELSE IF n <= poss[i] THEN i - 1
    ELSE StartScanInclusive(poss, i + 1, n - poss[i])

RECURSIVE StartScan(_, _, _)
StartScan(poss, i, n) ==
    IF i > Len(poss) THEN 0
    ELSE IF n < poss[i] THEN i - 1
    ELSE StartScan(poss, i + 1, n - poss[i])

\* the index the walk starts at: forEachFromRandomIndexWithPossibility, or
\* forEachFromRandomIndex when total is 0
WalkStart(poss, total, rn) ==
    IF total = 0 THEN randIntn(rn, Len(poss))
    ELSE StartScan(poss, 1, randIntn(rn, total))

(***************************************************************************)
(* Storage backends.  ServeDownload and ServeMeasure are collaborators:    *)
(* what they return is an input of the step that calls them.               *)
(***************************************************************************)
\* the nil storage.Storage
NilSto == -1

\* sto.String() of cr.storages[i]
StorageName(i) == <<"storage", i>>

ErrKinds == {"ErrNotExist", "HTTPStatusError", "other"}

\* what ServeDownload may return: (sz, nil) with sz negative or not, or an error
Outcomes == {[sz |-> z, er |-> "nil"] : z \in -1..MaxSz} \cup {[sz |-> 0, er |-> k] : k \in ErrKinds}

Zero == [hits |-> 0, hbts |-> 0, statHits |-> 0, statHbts |-> 0]

Counters == [hits |-> hits, hbts |-> hbts, statHits |-> statHits, statHbts |-> statHbts]

\* the locals of the request's handler: n of ServeHTTP's measure case, the rest of handleDownload
NoFrame == [hash |-> <<>>, keepaliveRec |-> TRUE, size |-> 0, err |-> "nil", sto |-> NilSto,
            start |-> 0, phase |-> 0, i |-> 0, n |-> 0]

\* the size the authority's file list gives every file
FileBytes == 5

(***************************************************************************)
(* handleDownload, lines 462-483: the callback given to                    *)
(* forEachFromRandomIndexWithPossibility, for the answer o of ServeDownload *)
(***************************************************************************)
\* err after the callback
cbErrKeepFirst(err, o) == IF o.er # "nil" /\ err = "nil" THEN o.er ELSE err

cbErr(err, o) == IF o.er # "nil" THEN o.er ELSE err

\* the callback's result: true ends the walk
cbDone(o) == o.er = "nil"

\* what the callback adds to the counters
cbAddAlways(keepaliveRec, o) ==
    IF o.er # "nil" THEN Zero
    ELSE IF keepaliveRec THEN [Zero EXCEPT !.hits = 1, !.hbts = o.sz]
    ELSE [Zero EXCEPT !.statHits = 1, !.statHbts = o.sz]

cbAdd(keepaliveRec, o) ==
    IF o.er # "nil" \/ o.sz < 0 THEN Zero
    ELSE IF keepaliveRec THEN [Zero EXCEPT !.hits = 1, !.hbts = o.sz]
    ELSE [Zero EXCEPT !.statHits = 1, !.statHbts = o.sz]

\* the position after (phase, i) in the two loops of the iterator; phase 0: the loops are over
NextPosThroughStart(frame, leng) ==
    IF frame.phase = 1
    THEN IF frame.i + 1 < leng THEN [phase |-> 1, i |-> frame.i + 1]
         ELSE [phase |-> 2, i |-> 0]
    ELSE IF frame.i + 1 <= frame.start THEN [phase |-> 2, i |-> frame.i + 1]
         ELSE [phase |-> 0, i |-> 0]

NextPos(frame, leng) ==
    IF frame.phase = 1
    THEN IF frame.i + 1 < leng THEN [phase |-> 1, i |-> frame.i + 1]
         ELSE IF 0 < frame.start THEN [phase |-> 2, i |-> 0]
         ELSE [phase |-> 0, i |-> 0]
    ELSE IF frame.i + 1 < frame.start THEN [phase |-> 2, i |-> frame.i + 1]
         ELSE [phase |-> 0, i |-> 0]

\* lines 489-497: the status for the remembered error
ErrStatusNoNotExist(err) == IF err = "HTTPStatusError" THEN 502 ELSE 500

ErrStatus(err) ==
    IF err = "ErrNotExist" THEN 404
    ELSE IF err = "HTTPStatusError" THEN 502
    ELSE 500

Written(code) == [by |-> "handler", status |-> code]

\* lines 484-500: what handleDownload does once the walk is over
AfterWalkExtras(frame, info) ==
    IF frame.sto # NilSto THEN SetAccessInfo(info, "storage", StorageName(frame.sto)) ELSE info

AfterWalkResp(frame, written) ==
    IF frame.err # "nil" THEN Append(written, Written(ErrStatus(frame.err))) ELSE written

(***************************************************************************)
(* Cluster.ServeHTTP, lines 336-416, up to the call of handleDownload or   *)
(* of ServeMeasure.  The result is the state the request is left in:       *)
(* [pc, dl, resp, extras, calls, fileset, add].  t is the clock read by    *)
(* checkQuerySign, dash the configuration's Dashboard.Enable.              *)
(***************************************************************************)
clusterSecret == <<"k">>

Call(name) == [op |-> name, n |-> 0]

Ended(code) ==
    [pc |-> "done", dl |-> NoFrame, resp |-> <<Written(code)>>, extras |-> <<>>,
     calls |-> <<>>, fileset |-> fileset, add |-> Zero]

Delegated(name) == [Ended(0) EXCEPT !.resp = <<>>, !.calls = <<Call(name)>>]

Entered(at, frame) == [Ended(0) EXCEPT !.pc = at, !.resp = <<>>, !.dl = frame]

\* line 374: the subject of a measure request's signature (u.Path)
measureSubjectSizeOnly(r) == After(r.path, MeasurePrefix)

measureSubject(r) == r.path

\* line 384: n < 0 || n > 200, for the value n of strconv.Atoi
measureOutOfRangeZeroToo(n) == n.neg \/ n.mag = <<>> \/ MagLess(NatMag(MeasureMax), n.mag)

measureOutOfRange(n) == n.neg \/ MagLess(NatMag(MeasureMax), n.mag)

route(r, t, dash) ==
    IF HasPrefix(r.path, DownloadPrefix)
    THEN LET hash == After(r.path, DownloadPrefix)
         IN  IF r.method \notin {"GET", "HEAD"} THEN Ended(405)
             ELSE IF ~IsHex(hash) THEN Ended(404)
             ELSE IF ~checkQuerySign(hash, clusterSecret, r.query, t) THEN Ended(403)
             ELSE Entered("handleDownload", [NoFrame EXCEPT !.hash = hash])
    ELSE IF HasPrefix(r.path, MeasurePrefix)
    THEN IF r.method \notin {"GET", "HEAD"} THEN Ended(405)
         ELSE IF ~checkQuerySign(measureSubject(r), clusterSecret, r.query, t) THEN Ended(403)
         ELSE LET n == Atoi(After(r.path, MeasurePrefix))
              IN  IF n.err # "nil" THEN Ended(400)
                  ELSE IF measureOutOfRange(n.val) THEN Ended(400)
                  ELSE Entered("measure", [NoFrame EXCEPT !.n = MagNat(n.val.mag)])
    ELSE IF HasPrefix(r.path, ApiPrefix)
            /\ Cut(After(r.path, ApiPrefix), "/").before = <<"v", "0">>
    THEN Delegated("handlerAPIv0")
    ELSE IF HasPrefix(r.path, DashboardPrefix)
    THEN (IF dash THEN Delegated("serveDashboard") ELSE Ended(404))
    ELSE IF r.path = <<"/">> \/ r.path = SubSeq(DashboardPrefix, 1, Len(DashboardPrefix) - 1)
    THEN Ended(302)
    ELSE IF HasPrefix(r.path, BmclapiPrefix) THEN Delegated("hijackHandler")
    ELSE Ended(404)

(***************************************************************************)
(* handleDownload, lines 418-462, up to the first ServeDownload call.      *)
(* noRecord: the context value of                                          *)
(* "go-openbmclapi.handler.no.record.for.keepalive" is true; rg: the Range *)
(* header; ok: DownloadFile returns nil; rn: the value read from rd.       *)
(***************************************************************************)
\* line 441: !cr.shouldEnable.Load()
notEnabledYetNever == FALSE

notEnabledYet == ~shouldEnable

\* lines 447-451: the extras after the Range header rg was looked at
markRange(info, rg) ==
    LET first == parseRangeFirstStart(rg)
    IN  IF rg # <<>> /\ first.ok /\ first.start.mag # <<>>
        THEN SetAccessInfo(info, "skip-ua-count", "range") ELSE info

handleDownloadEntry(hash, noRecord, rg, ok, rn) ==
    LET keepaliveRec == ~noRecord
        entry  == <<Call("handleDownload")>>
        frame0 == [NoFrame EXCEPT !.hash = hash, !.keepaliveRec = keepaliveRec]
    IN  IF hash \in emptyHashes
        THEN [Ended(200) EXCEPT !.dl = frame0, !.calls = entry,
                                !.add = IF keepaliveRec THEN [Zero EXCEPT !.hits = 1]
                                        ELSE [Zero EXCEPT !.statHits = 1]]
        ELSE IF notEnabledYet
        THEN [Ended(503) EXCEPT !.dl = frame0, !.calls = entry]
        ELSE LET info   == markRange(<<>>, rg)
                 cached == CachedFileSize(hash)
                 calls1 == Append(entry, Call("CachedFileSize"))
                 calls2 == IF cached.ok THEN calls1 ELSE Append(calls1, Call("DownloadFile"))
                 leng   == Len(storageWeights)
                 frame1 == [frame0 EXCEPT !.size = cached.size]
             IN  IF ~cached.ok /\ ~ok
                 THEN [Ended(404) EXCEPT !.dl = frame1, !.calls = calls2, !.extras = info]
                 ELSE LET fs == IF cached.ok THEN fileset
                                ELSE [h \in DOMAIN fileset \cup {hash} |->
                                        IF h = hash THEN FileBytes ELSE fileset[h]]
                      IN  IF leng = 0
                          THEN [pc |-> "done", dl |-> frame1,
                                resp |-> AfterWalkResp(frame1, <<>>),
                                extras |-> AfterWalkExtras(frame1, info),
                                calls |-> calls2, fileset |-> fs, add |-> Zero]
                          ELSE LET start == WalkStart(storageWeights, storageTotalWeight, rn)
                               IN  [pc |-> "walk",
                                    dl |-> [frame1 EXCEPT !.start = start, !.phase = 1, !.i = start],
                                    resp |-> <<>>, extras |-> info,
                                    calls |-> calls2, fileset |-> fs, add |-> Zero]

(***************************************************************************)
(* Requests.                                                               *)
(***************************************************************************)
\* hex(MD5("hello")), in the file index from the start
HelloMD5 == <<"5","d","4","1","4","0","2","a","b","c","4","b","2","a","7","6","b","9","7","1","9","d","9","1","1","0","1","7","c","5","9","2">>

\* hex(SHA1("hello")), not in the file index at the start
HelloSHA1 == <<"a","a","f","4","c","6","1","d","d","c","c","5","e","8","a","2","d","a","b","e","d","e","0","f","3","b","4","8","2","c","d","9","a","e","a","9","4","3","4","d">>

\* hexadecimal, but of no digest's length
ShortHex == <<"a","b","c","d">>

\* of MD5's length, with a byte that is no hexadecimal digit
BadChar == [HelloMD5 EXCEPT ![1] = "g"]

Hashes == {MD5Empty, SHA1Empty, HelloMD5, HelloSHA1, ShortHex, BadChar}

Methods == {"GET", "HEAD", "POST"}

\* no Range header, and "bytes=5-"
Ranges == {<<>>, BytesPrefix \o <<"5", "-">>}

\* both ends of the accepted range, a value inside, the neighbours outside, no number
MeasureSizes == {<<"0">>, <<"5">>, <<"2","0","0">>, <<"2","0","1">>, <<"-","1">>, <<"x">>}

OtherPaths == { <<"/">>, <<"/","x">>, ApiPrefix \o <<"v","0","/","x">>,
                BmclapiPrefix \o <<"x">>, DashboardPrefix }

\* e = "a": the signature expires at millisecond 10
HttpE == <<"a">>

\* the clock at the signature check: before the expiry, and at it
HttpTimes == {Big(FALSE, <<>>), Big(FALSE, <<10>>)}

\* s: not a signature, the signature over the part after the prefix, the signature over the path
Queries(rest, path) ==
    {[s |-> x, e |-> HttpE] : x \in {Garbage, Digest(clusterSecret \o rest \o HttpE),
                                     Digest(clusterSecret \o path \o HttpE)}}

Request(m, p, q) == [method |-> m, path |-> p, query |-> q, noRecord |-> FALSE, range |-> <<>>]

Requests ==
    UNION {{Request(m, DownloadPrefix \o h, q) : m \in Methods, q \in Queries(h, DownloadPrefix \o h)} :
           h \in Hashes}
    \cup UNION {{Request(m, MeasurePrefix \o n, q) : m \in Methods, q \in Queries(n, MeasurePrefix \o n)} :
           n \in MeasureSizes}
    \cup {Request(m, p, [s |-> <<>>, e |-> <<>>]) : m \in Methods, p \in OtherPaths}

(***************************************************************************)
(* The cluster after construction.                                         *)
(***************************************************************************)
\* the storage weights a cluster of n storages is configured with: all zero
\* (the walk starts anywhere), all one, and 0, 1, 2, ... (storage 0 never starts)
WeightConfigs(n) == {[i \in 1..n |-> 0], [i \in 1..n |-> 1], [i \in 1..n |-> i - 1]}

RECURSIVE SumSeq(_)
SumSeq(q) == IF q = <<>> THEN 0 ELSE Head(q) + SumSeq(Tail(q))

Init ==
    /\ LibAtRest
    /\ sgReq = <<>> /\ sgOrigin = NoOrigin /\ sgTamper = "none"
    /\ sgNow = Big(FALSE, <<>>) /\ sgRes = "none"
    /\ storageWeights \in UNION {WeightConfigs(n) : n \in 0..MaxStorages}
    /\ storageTotalWeight = SumSeq(storageWeights)
    /\ shouldEnable = FALSE
    /\ fileset = [h \in {HelloMD5} |-> FileBytes]
    /\ hits = 0 /\ hbts = 0 /\ statHits = 0 /\ statHbts = 0
    /\ pc = "idle"
    /\ req = <<>> /\ reqNow = Big(FALSE, <<>>)
    /\ dl = NoFrame
    /\ resp = <<>> /\ extras = <<>> /\ calls = <<>> /\ visits = <<>>
    /\ atEntry = Zero
    /\ nreq = 0

(***************************************************************************)
(* Actions.                                                                *)
(***************************************************************************)
\* the external cluster collaborator enables and disables the node
Enable ==
    /\ ~shouldEnable
    /\ shouldEnable' = TRUE
    /\ UNCHANGED <<sgVars, libVars, storageWeights, storageTotalWeight, fileset, hits, hbts, statHits, statHbts, reqVars>>

Disable ==
    /\ shouldEnable
    /\ shouldEnable' = FALSE
    /\ UNCHANGED <<sgVars, libVars, storageWeights, storageTotalWeight, fileset, hits, hbts, statHits, statHbts, reqVars>>

\* the request is left as out says
Leave(out) ==
    /\ pc' = out.pc
    /\ dl' = out.dl
    /\ resp' = out.resp
    /\ extras' = out.extras
    /\ calls' = out.calls
    /\ fileset' = out.fileset
    /\ hits' = hits + out.add.hits
    /\ hbts' = hbts + out.add.hbts
    /\ statHits' = statHits + out.add.statHits
    /\ statHbts' = statHbts + out.add.statHbts

\* a request arrives: Cluster.ServeHTTP up to the call of handleDownload or ServeMeasure
ServeHTTP(r, t) ==
    /\ pc = "idle" /\ nreq < MaxRequests
    /\ \E dash \in (IF HasPrefix(r.path, DashboardPrefix) THEN BOOLEAN ELSE {FALSE}) :
          Leave(route(r, t, dash))
    /\ req' = r
    /\ reqNow' = t
    /\ visits' = <<>>
    /\ atEntry' = Counters
    /\ nreq' = nreq + 1
    /\ UNCHANGED <<sgVars, libVars, storageWeights, storageTotalWeight, shouldEnable>>

\* handleDownload up to the first ServeDownload call
handleDownload(noRecord, rg, ok, rn) ==
    /\ pc = "handleDownload"
    /\ Leave(handleDownloadEntry(dl.hash, noRecord, rg, ok, rn))
    /\ req' = [req EXCEPT !.noRecord = noRecord, !.range = rg]
    /\ UNCHANGED <<sgVars, libVars, storageWeights, storageTotalWeight, shouldEnable, reqNow, visits, atEntry, nreq>>

\* lines 388-392: cr.storages[0].ServeMeasure(rw, req, n) returns nil (ok) or an error
ServeMeasure(ok) ==
    /\ pc = "measure"
    /\ pc' = "done"
    /\ IF Len(storageWeights) = 0
       THEN resp' = <<[by |-> "panic", status |-> 0]>> /\ calls' = calls
       ELSE /\ calls' = Append(calls, [op |-> "ServeMeasure", n |-> dl.n])
            /\ resp' = IF ok THEN <<[by |-> StorageName(0), status |-> 200]>>
                       ELSE <<Written(500)>>
    /\ UNCHANGED <<sgVars, libVars, crVars, req, reqNow, dl, extras, visits, atEntry, nreq>>

\* one call of the walk's callback: ServeDownload on cr.storages[dl.i] answers o;
\* when the walk is over the rest of handleDownload runs
ServeDownload(o) ==
    /\ pc = "walk"
    /\ LET frame   == [dl EXCEPT !.sto = dl.i, !.err = cbErr(dl.err, o)]
           add     == cbAdd(dl.keepaliveRec, o)
           written == IF o.er = "nil" /\ o.sz >= 0
                      THEN Append(resp, [by |-> StorageName(dl.i), status |-> 200])
                      ELSE resp
           nxt     == NextPos(dl, Len(storageWeights))
       IN  /\ visits' = Append(visits, [sto |-> dl.i, size |-> dl.size, sz |-> o.sz, er |-> o.er])
           /\ hits' = hits + add.hits
           /\ hbts' = hbts + add.hbts
           /\ statHits' = statHits + add.statHits
           /\ statHbts' = statHbts + add.statHbts
           /\ IF cbDone(o) \/ nxt.phase = 0
              THEN /\ pc' = "done"
                   /\ dl' = frame
                   /\ resp' = AfterWalkResp(frame, written)
                   /\ extras' = AfterWalkExtras(frame, extras)
              ELSE /\ pc' = "walk"
                   /\ dl' = [frame EXCEPT !.phase = nxt.phase, !.i = nxt.i]
                   /\ resp' = written
                   /\ extras' = extras
    /\ UNCHANGED <<sgVars, libVars, storageWeights, storageTotalWeight, shouldEnable, fileset,
                   req, reqNow, calls, atEntry, nreq>>

\* ServeHTTP has returned; the next request may arrive
Return ==
    /\ pc = "done"
    /\ pc' = "idle"
    /\ req' = <<>> /\ reqNow' = Big(FALSE, <<>>)
    /\ dl' = NoFrame
    /\ resp' = <<>> /\ extras' = <<>> /\ calls' = <<>> /\ visits' = <<>>
    /\ atEntry' = Zero
    /\ UNCHANGED <<sgVars, libVars, crVars, nreq>>

Next ==
    \/ Enable
    \/ Disable
    \/ \E r \in Requests, t \in HttpTimes : ServeHTTP(r, t)
    \/ \E noRecord \in BOOLEAN, rg \in Ranges, ok \in BOOLEAN, rn \in 0..MaxRand :
          handleDownload(noRecord, rg, ok, rn)
    \/ \E ok \in BOOLEAN : ServeMeasure(ok)
    \/ \E o \in Outcomes : ServeDownload(o)
    \/ Return

Spec == Init /\ [][Next]_vars

(***************************************************************************)
(* What the claims speak of.                                               *)
(***************************************************************************)
Served(v) == v.er = "nil" /\ v.sz >= 0

SoftMiss(v) == v.er = "nil" /\ v.sz < 0

Failed(v) == v.er # "nil"

ServedAt == {k \in DOMAIN visits : Served(visits[k])}

FailedAt == {k \in DOMAIN visits : Failed(visits[k])}

FirstErr == visits[CHOOSE k \in FailedAt : \A j \in FailedAt : k <= j].er

LastErr == visits[CHOOSE k \in FailedAt : \A j \in FailedAt : j <= k].er

\* the status the dispatcher is to answer for an error of the walk
StatusOf(er) == CASE er = "ErrNotExist" -> 404 [] er = "HTTPStatusError" -> 502 [] OTHER -> 500

IsDownload == pc # "idle" /\ HasPrefix(req.path, DownloadPrefix)

IsMeasure == pc # "idle" /\ HasPrefix(req.path, MeasurePrefix)

ReqHash == After(req.path, DownloadPrefix)

GetOrHead == req.method \in {"GET", "HEAD"}

\* the request's signature verifies: over the hash for a download, over the path for a measure
Signed == checkQuerySign(IF IsDownload THEN ReqHash ELSE req.path, clusterSecret, req.query, reqNow)

\* what the request has added to the counters so far
Delta == [f \in DOMAIN Zero |-> Counters[f] - atEntry[f]]

HandlerErrorWritten == \E k \in DOMAIN resp : resp[k].by = "handler" /\ resp[k].status \in {404, 500, 502}

NothingInvoked == pc = "done" /\ calls = <<>> /\ visits = <<>> /\ Counters = atEntry

(***************************************************************************)
(* C1: a soft miss (negative size, nil error) does not end the walk: the   *)
(* walk ends only at the first backend that returns (sz >= 0, nil) or when *)
(* every backend has been tried, and the `storage` extra names the backend *)
(* that served.                                                            *)
(***************************************************************************)
C1_SoftMissContinues ==
    (pc = "done" /\ visits # <<>>) =>
        /\ Served(visits[Len(visits)]) \/ Len(visits) = Len(storageWeights)
        /\ \A k \in ServedAt : /\ "storage" \in DOMAIN extras
                               /\ extras["storage"] = StorageName(visits[k].sto)

(***************************************************************************)
(* C2: when some backend of the walk returns (sz >= 0, nil), the           *)
(* dispatcher writes no error response (404/502/500), whatever errors      *)
(* earlier backends returned.                                              *)
(***************************************************************************)
C2_NoErrorAfterSuccess ==
    (pc = "done" /\ ServedAt # {}) => ~HandlerErrorWritten

(***************************************************************************)
(* C3: a request in which a backend returns (sz >= 0, nil) adds exactly 1  *)
(* hit and sz bytes to exactly one counter pair, once: (hits, hbts) unless *)
(* the no-record flag is true, else (statHits, statHbts); the backends     *)
(* visited before add nothing.                                             *)
(***************************************************************************)
C3_OneCounterPair ==
    visits # <<>> =>
        IF ServedAt = {} THEN Counters = atEntry
        ELSE /\ ServedAt = {Len(visits)}
             /\ pc = "done"
             /\ LET sz == visits[Len(visits)].sz
                IN  Delta = IF req.noRecord
                            THEN [hits |-> 0, hbts |-> 0, statHits |-> 1, statHbts |-> sz]
                            ELSE [hits |-> 1, hbts |-> sz, statHits |-> 0, statHbts |-> 0]

\* a backend fails, the next serves sz > 0 bytes of a request flagged no-record
C3_Witness ==
    /\ pc = "done" /\ Len(visits) = 2
    /\ Failed(visits[1]) /\ Served(visits[2]) /\ visits[2].sz > 0
    /\ req.noRecord
    /\ statHbts = atEntry.statHbts + visits[2].sz

(***************************************************************************)
(* C5: a GET/HEAD request to /download/{hash} or /measure/{n} whose        *)
(* signature check fails is answered 403, nothing is invoked for it and no *)
(* counter changes.  As stated (C5_Unauthenticated403) it fails for a      *)
(* download whose hash is not hexadecimal: that one is answered 404 before *)
(* the signature is looked at (C5_UnauthenticatedRejected).                *)
(***************************************************************************)
Unauthenticated == (IsDownload \/ IsMeasure) /\ GetOrHead /\ ~Signed

C5_Unauthenticated403 ==
    Unauthenticated => (NothingInvoked /\ resp = <<Written(403)>>)

C5_UnauthenticatedRejected ==
    Unauthenticated =>
        /\ NothingInvoked
        /\ resp = IF IsDownload /\ ~IsHex(ReqHash) THEN <<Written(404)>> ELSE <<Written(403)>>

\* a measure request signed over its size alone, not over its path, is refused
C5_Witness ==
    /\ IsMeasure /\ GetOrHead /\ pc = "done"
    /\ req.query.s = Digest(clusterSecret \o After(req.path, MeasurePrefix) \o req.query.e)
    /\ BigLess(reqNow, ParseInt(req.query.e, Base36, Int64Bits).val)
    /\ resp = <<Written(403)>>

(***************************************************************************)
(* C6: a correctly signed download of the hash of empty input is answered  *)
(* 200 without the enabled gate, the file index, DownloadFile or a         *)
(* backend; it adds 1 to the selected hit counter and nothing else.        *)
(***************************************************************************)
C6_EmptyHash ==
    (pc = "done" /\ IsDownload /\ GetOrHead /\ ReqHash \in {MD5Empty, SHA1Empty} /\ Signed) =>
        /\ resp = <<Written(200)>>
        /\ calls = <<Call("handleDownload")>>
        /\ visits = <<>>
        /\ Delta = IF req.noRecord THEN [Zero EXCEPT !.statHits = 1] ELSE [Zero EXCEPT !.hits = 1]

\* the SHA-1 of no bytes, flagged no-record, served by a cluster that is not enabled
C6_Witness ==
    /\ pc = "done" /\ IsDownload /\ ReqHash = SHA1Empty
    /\ resp = <<Written(200)>>
    /\ req.noRecord /\ statHits = atEntry.statHits + 1
    /\ ~shouldEnable

(***************************************************************************)
(* C7: while the cluster is not enabled, a download of a non-empty-input   *)
(* hash that reaches the dispatcher is answered 503; no index lookup, no   *)
(* DownloadFile, no ServeDownload, no extra, no counter change.            *)
(***************************************************************************)
C7_NotEnabled ==
    [][(pc = "handleDownload" /\ pc' # "handleDownload" /\ ~shouldEnable
          /\ dl.hash \notin {MD5Empty, SHA1Empty})
       => /\ pc' = "done"
          /\ resp' = <<Written(503)>>
          /\ calls' = <<Call("handleDownload")>>
          /\ extras' = <<>>
          /\ visits' = <<>>
          /\ Counters' = Counters
          /\ fileset' = fileset]_vars

\* a request with a Range header that starts past 0 is turned away by the gate
C7_Witness ==
    /\ pc = "done" /\ IsDownload
    /\ resp = <<Written(503)>>
    /\ req.range # <<>>
    /\ extras = <<>>

(***************************************************************************)
(* C8: a walk that ends with no backend having succeeded and at least one  *)
(* error answers by the last error: 404 for not-exist, 502 for an HTTP     *)
(* status error, 500 otherwise; no counter changes.                        *)
(***************************************************************************)
C8_LastErrorStatus ==
    (pc = "done" /\ ServedAt = {} /\ FailedAt # {}) =>
        /\ resp = <<Written(StatusOf(LastErr))>>
        /\ Counters = atEntry

\* two backends, both answer ErrNotExist: 404
C8_Witness ==
    /\ pc = "done" /\ Len(visits) = 2
    /\ visits[1].er = "ErrNotExist" /\ visits[2].er = "ErrNotExist"
    /\ resp = <<Written(404)>>

(***************************************************************************)
(* C9: when the walk ends without success and several backends failed with *)
(* errors of different kinds, the error that selects the status is the     *)
(* first one of the walk (C9_FirstErrorSurfaces).  It is the last one      *)
(* (C9_LastErrorSurfaces).                                                 *)
(***************************************************************************)
SeveralKindsFailed ==
    pc = "done" /\ ServedAt = {} /\ Cardinality({visits[k].er : k \in FailedAt}) >= 2

ValidHash(h) == Len(h) \in {32, 40} /\ \A i \in 1..Len(h) : h[i] \in HexChars

C10_InvalidHashRejected ==
    (IsDownload /\ ~ValidHash(ReqHash)) =>
        /\ NothingInvoked
        /\ Len(resp) = 1 /\ resp[1].by = "handler" /\ resp[1].status \in 400..499

(***************************************************************************)
(* C11: a correctly signed GET/HEAD /measure/{n} calls                     *)
(* storages[0].ServeMeasure exactly once, with n, iff n is a base-10       *)
(* integer with 0 <= n <= 200 (both ends included); otherwise the answer   *)
(* is 400 and no backend is called; an error of ServeMeasure is answered   *)
(* 500.  No other backend is used, and neither the enabled state nor the   *)
(* counters take part.  (Stated for a cluster that has a storage 0.)       *)
(***************************************************************************)
MeasureSize == After(req.path, MeasurePrefix)

DecimalDigits == {"0","1","2","3","4","5","6","7","8","9"}

\* the value of a string of decimal digits
RECURSIVE DecimalValue(_)
DecimalValue(str) ==
    IF str = <<>> THEN 0
    ELSE 10 * DecimalValue(SubSeq(str, 1, Len(str) - 1))
         + (CHOOSE d \in 0..9 : ToString(d) = str[Len(str)])

\* the size is an unsigned decimal number of at most 3 digits within 0..200
SizeAccepted(str) ==
    /\ Len(str) \in 1..3
    /\ \A i \in 1..Len(str) : str[i] \in DecimalDigits
    /\ DecimalValue(str) <= 200

\* the only status line of the response is the 200 of storage i
ServedBy(i) == Len(resp) = 1 /\ resp[1].status = 200 /\ StorageName(i) = resp[1].by

ItWeights(n) == [1..n -> 0..MaxWeight]

ItCalls ==
    {[kind |-> "uniform", leng |-> n, poss |-> <<>>, total |-> 0] : n \in (-1)..MaxLeng}
    \cup UNION {{[kind |-> "weighted", leng |-> n, poss |-> w, total |-> SumSeq(w)] : w \in ItWeights(n)} :
                n \in 0..MaxLeng}

\* the values read from the channel rd: every draw below the largest total, and one wrap
ItRands == 0..(MaxLeng * MaxWeight)

InitIter ==
    /\ SignAtRest
    /\ RangeAtRest
    /\ ChainAtRest
    /\ HostAtRest
    /\ AtRest
    /\ BufAtRest
    /\ RecordAtRest
    /\ itArgs \in ItCalls
    /\ itCb \in SUBSET (0..(itArgs.leng - 1))
    /\ itFrame = <<>>
    /\ itVisited = <<>>
    /\ itRet = "none"

\* the call returns false before its loops
ItReturnsAtOnce(rn) ==
    /\ itFrame' = [start |-> 0, phase |-> 0, i |-> 0, rn |-> rn]
    /\ itRet' = "false"

\* the call enters its first loop at start
ItLoopsFrom(start, rn) ==
    /\ itFrame' = [start |-> start, phase |-> 1, i |-> start, rn |-> rn]
    /\ itRet' = "none"

\* forEachFromRandomIndex(leng, cb), lines 202-206, with rn the value read from rd
forEachFromRandomIndex(rn) ==
    /\ itFrame = <<>> /\ itArgs.kind = "uniform"
    /\ IF itArgs.leng <= 0 THEN ItReturnsAtOnce(rn)
       ELSE ItLoopsFrom(randIntn(rn, itArgs.leng), rn)
    /\ UNCHANGED <<sgVars, crVars, reqVars, rgVars, chVars, hrVars, bsVars, recVars, itArgs, itCb, itVisited>>

\* forEachFromRandomIndexWithPossibility(poss, total, cb), lines 220-238
forEachFromRandomIndexWithPossibility(rn) ==
    /\ itFrame = <<>> /\ itArgs.kind = "weighted"
    /\ IF Len(itArgs.poss) = 0 THEN ItReturnsAtOnce(rn)
       ELSE ItLoopsFrom(WalkStart(itArgs.poss, itArgs.total, rn), rn)
    /\ UNCHANGED <<sgVars, crVars, reqVars, rgVars, chVars, hrVars, bsVars, recVars, itArgs, itCb, itVisited>>

\* one turn of the loops, lines 207-217 and 239-248: cb(i), then return or go on
cb ==
    /\ itFrame # <<>> /\ itRet = "none"
    /\ itVisited' = Append(itVisited, itFrame.i)
    /\ LET nxt == NextPos(itFrame, itArgs.leng)
       IN  IF itFrame.i \in itCb
           THEN itRet' = "true" /\ itFrame' = [itFrame EXCEPT !.phase = 0]
           ELSE IF nxt.phase = 0
           THEN itRet' = "false" /\ itFrame' = [itFrame EXCEPT !.phase = 0]
           ELSE itRet' = "none" /\ itFrame' = [itFrame EXCEPT !.phase = nxt.phase, !.i = nxt.i]
    /\ UNCHANGED <<sgVars, crVars, reqVars, rgVars, chVars, hrVars, bsVars, recVars, itArgs, itCb>>

NextIter ==
    \/ \E rn \in ItRands : forEachFromRandomIndex(rn)
    \/ \E rn \in ItRands : forEachFromRandomIndexWithPossibility(rn)
    \/ cb

SpecIter == InitIter /\ [][NextIter]_vars

(***************************************************************************)
(* C12: both iterators call cb on start, start+1, ..., length-1, 0, ...,   *)
(* start-1.  If cb never returns true every index of [0, length) is        *)
(* visited exactly once and the result is false; if cb returns true the    *)
(* iteration stops at once, no index was visited twice, and the result is  *)
(* true.                                                                   *)
(***************************************************************************)
ItLeng == IF itArgs.leng < 0 THEN 0 ELSE itArgs.leng

\* start, start+1, ..., leng-1, 0, ..., start-1
CyclicOrder(start, leng) == [k \in 1..leng |-> (start + k - 1) % leng]

C12_CyclicOrder ==
    itFrame # <<>> =>
        LET order == CyclicOrder(itFrame.start, ItLeng)
            seen  == Len(itVisited)
        IN  /\ ItLeng > 0 => itFrame.start \in 0..(ItLeng - 1)
            /\ seen <= ItLeng
            /\ itVisited = SubSeq(order, 1, seen)
            /\ \A j, k \in 1..seen : j # k => itVisited[j] # itVisited[k]
            /\ \A k \in 1..(seen - 1) : itVisited[k] \notin itCb
            /\ itRet = "false" => (seen = ItLeng /\ \A k \in 1..seen : itVisited[k] \notin itCb)
            /\ itRet = "true" => (seen > 0 /\ itVisited[seen] \in itCb)
            /\ itRet = "none" => (seen < ItLeng /\ (seen > 0 => itVisited[seen] \notin itCb))

\* the uniform iterator starts at 1 of 3, cb says true only at 0: 1, 2, 0 and true
C12_Witness ==
    /\ itArgs # <<>> /\ itArgs.kind = "uniform" /\ itArgs.leng = 3
    /\ itCb = {0}
    /\ itVisited = <<1, 2, 0>>
    /\ itRet = "true"

(***************************************************************************)
(* C13: the start of forEachFromRandomIndexWithPossibility.  With total    *)
(* the sum of the weights and positive, the draw n of [0, total) starts    *)
(* at the first index whose inclusive prefix sum exceeds n: exactly w[i]   *)
(* draws start at i, an index of weight 0 never starts (and is still       *)
(* visited on the way round).  With total 0 or no weights the call does    *)
(* what forEachFromRandomIndex does for the same length.                   *)
(***************************************************************************)
PrefixSum(poss, j) == SumSeq(SubSeq(poss, 1, j))

\* what forEachFromRandomIndex leaves after its entry for length leng and the draw rn
UniformEntry(leng, rn) ==
    IF leng <= 0 THEN [start |-> 0, phase |-> 0, i |-> 0, rn |-> rn]
    ELSE [start |-> rn % leng, phase |-> 1, i |-> rn % leng, rn |-> rn]

C13_StartSelection ==
    (itFrame # <<>> /\ itArgs.kind = "weighted") =>
        LET poss  == itArgs.poss
            total == itArgs.total
        IN  IF total > 0
            THEN LET n == itFrame.rn % total
                 IN  /\ n < PrefixSum(poss, itFrame.start + 1)
                     /\ \A j \in 1..itFrame.start : PrefixSum(poss, j) <= n
                     /\ poss[itFrame.start + 1] > 0
                     /\ \A j \in 1..Len(poss) :
                           Cardinality({d \in 0..(total - 1) : WalkStart(poss, total, d) = j - 1}) = poss[j]
            ELSE /\ itFrame.start = UniformEntry(Len(poss), itFrame.rn).start
                 /\ itVisited = <<>> => itFrame = UniformEntry(Len(poss), itFrame.rn)
                 /\ itRet = "false" => itVisited = CyclicOrder(itFrame.start, Len(poss))

\* weights 0, 2, 1 and the draw 2: the walk starts at 2 and still visits index 0, of weight 0
C13_Witness ==
    /\ itArgs # <<>> /\ itArgs.kind = "weighted" /\ itArgs.poss = <<0, 2, 1>>
    /\ itFrame # <<>> /\ itFrame.rn = 2 /\ itFrame.start = 2
    /\ itVisited = <<2, 0, 1>>
    /\ itRet = "false"

(***************************************************************************)
(* BufSlots, src/unnamed/part_002 lines 444-483: a pool of BufSize slots   *)
(* and BufSize + 1 goroutines that call Alloc and release what they got    *)
(* exactly once.  A slot's buffer is named by the id of the slot it was    *)
(* made for.                                                               *)
(***************************************************************************)
BufProcs == 1..(BufSize + 1)

\* the nil buffer of the cancellation sentinel
NilBuf == -1

\* nothing returned yet
NoSlot == [id |-> -1, buf |-> NilBuf, free |-> FALSE]

\* NewBufSlots(size): the channel holds the slots 0..size-1
NewBufSlots(size) == [i \in 1..size |-> [id |-> i - 1, buf |-> i - 1]]

\* Len() and Cap()
BufLen == Len(bsC)

BufCap == BufSize

InitBuf ==
    /\ SignAtRest
    /\ RangeAtRest
    /\ ChainAtRest
    /\ HostAtRest
    /\ AtRest
    /\ IterAtRest
    /\ RecordAtRest
    /\ bsC = NewBufSlots(BufSize)
    /\ bsPc = [p \in BufProcs |-> "idle"]
    /\ bsGot = [p \in BufProcs |-> NoSlot]
    /\ bsCtx = [p \in BufProcs |-> FALSE]

\* the pool after `slot := <-s.c`
recvKeepsSlot(c) == c

recvRest(c) == Tail(c)

\* the pool after `case <-ctx.Done(): return 0, nil, nil`
doneTakesSlot(c) == IF c = <<>> THEN c ELSE Tail(c)

doneRest(c) == c

\* a goroutine calls Alloc(ctx) with a context that is not done yet, or is already
Alloc(p, already) ==
    /\ bsPc[p] = "idle"
    /\ bsPc' = [bsPc EXCEPT ![p] = "select"]
    /\ bsCtx' = [bsCtx EXCEPT ![p] = already]
    /\ bsGot' = [bsGot EXCEPT ![p] = NoSlot]
    /\ UNCHANGED <<sgVars, crVars, reqVars, rgVars, chVars, hrVars, itVars, recVars, bsC>>

\* the context of a goroutine waiting in Alloc is cancelled
Cancel(p) ==
    /\ bsPc[p] = "select" /\ ~bsCtx[p]
    /\ bsCtx' = [bsCtx EXCEPT ![p] = TRUE]
    /\ UNCHANGED <<sgVars, crVars, reqVars, rgVars, chVars, hrVars, itVars, recVars, bsC, bsPc, bsGot>>

\* lines 476-479: the select takes a slot from the channel
AllocSlot(p) ==
    /\ bsPc[p] = "select" /\ bsC # <<>>
    /\ bsGot' = [bsGot EXCEPT ![p] = [id |-> Head(bsC).id, buf |-> Head(bsC).buf, free |-> TRUE]]
    /\ bsC' = recvRest(bsC)
    /\ bsPc' = [bsPc EXCEPT ![p] = "holding"]
    /\ UNCHANGED <<sgVars, crVars, reqVars, rgVars, chVars, hrVars, itVars, recVars, bsCtx>>

\* lines 480-481: the select takes ctx.Done()
AllocDone(p) ==
    /\ bsPc[p] = "select" /\ bsCtx[p]
    /\ bsGot' = [bsGot EXCEPT ![p] = [id |-> 0, buf |-> NilBuf, free |-> FALSE]]
    /\ bsC' = doneRest(bsC)
    /\ bsPc' = [bsPc EXCEPT ![p] = "cancelled"]
    /\ UNCHANGED <<sgVars, crVars, reqVars, rgVars, chVars, hrVars, itVars, recVars, bsCtx>>

\* lines 477-479: the holder calls the release function it was given, once
free(p) ==
    /\ bsPc[p] = "holding"
    /\ bsC' = Append(bsC, [id |-> bsGot[p].id, buf |-> bsGot[p].buf])
    /\ bsPc' = [bsPc EXCEPT ![p] = "idle"]
    /\ bsGot' = [bsGot EXCEPT ![p] = NoSlot]
    /\ UNCHANGED <<sgVars, crVars, reqVars, rgVars, chVars, hrVars, itVars, recVars, bsCtx>>

\* a goroutine whose Alloc was cancelled goes on
GiveUp(p) ==
    /\ bsPc[p] = "cancelled"
    /\ bsPc' = [bsPc EXCEPT ![p] = "idle"]
    /\ bsGot' = [bsGot EXCEPT ![p] = NoSlot]
    /\ bsCtx' = [bsCtx EXCEPT ![p] = FALSE]
    /\ UNCHANGED <<sgVars, crVars, reqVars, rgVars, chVars, hrVars, itVars, recVars, bsC>>

NextBuf ==
    \E p \in BufProcs :
        \/ \E already \in BOOLEAN : Alloc(p, already)
        \/ Cancel(p)
        \/ AllocSlot(p)
        \/ AllocDone(p)
        \/ free(p)
        \/ GiveUp(p)

SpecBuf == InitBuf /\ [][NextBuf]_vars

(***************************************************************************)
(* C14: under every interleaving of Alloc calls and exactly-once releases  *)
(* Len() = Cap() - the number of slots held, so 0 <= Len() <= Cap(), and   *)
(* Len() = Cap() when nothing is held; the ids in the pool and the ids     *)
(* held are together exactly 0..K-1 without duplicates: no two holders     *)
(* hold the same id or buffer.                                             *)
(***************************************************************************)
Holders == {p \in DOMAIN bsPc : bsPc[p] = "holding"}

C14_PoolInvariant ==
    bsPc # <<>> =>
        /\ BufLen = BufCap - Cardinality(Holders)
        /\ 0 <= BufLen /\ BufLen <= BufCap
        /\ Holders = {} => BufLen = BufCap
        /\ {bsC[k].id : k \in DOMAIN bsC} \cup {bsGot[p].id : p \in Holders} = 0..(BufSize - 1)
        /\ \A j, k \in DOMAIN bsC : j # k => (bsC[j].id # bsC[k].id /\ bsC[j].buf # bsC[k].buf)
        /\ \A p, q \in Holders : p # q => (bsGot[p].id # bsGot[q].id /\ bsGot[p].buf # bsGot[q].buf)
        /\ \A p \in Holders : \A k \in DOMAIN bsC : bsC[k].id # bsGot[p].id
        /\ \A p \in Holders : bsGot[p].buf = bsGot[p].id /\ bsGot[p].free

\* every slot is held, after one of them went round the pool: 1 was released and taken again
C14_Witness ==
    /\ bsPc # <<>> /\ bsC = <<>>
    /\ Cardinality(Holders) = BufSize
    /\ bsPc[3] = "holding" /\ bsGot[3].id = 0
    /\ bsPc[1] = "holding" /\ bsGot[1].id = 1

(***************************************************************************)
(* C15: an Alloc returns only by taking a slot that is in the pool, so     *)
(* with all K slots held the (K+1)-th Alloc does not return before a       *)
(* holder releases, or by its context being done, then with the sentinel   *)
(* (nil buffer, nil release); an Alloc that returns the sentinel leaves    *)
(* the pool as it was.                                                     *)
(***************************************************************************)
C15_AllocBlocksOrCancels ==
    [][\A p \in DOMAIN bsPc :
          (bsPc[p] = "select" /\ bsPc'[p] # "select") =>
              \/ /\ bsPc'[p] = "holding"
                 /\ bsC # <<>>
                 /\ bsGot'[p] = [id |-> Head(bsC).id, buf |-> Head(bsC).buf, free |-> TRUE]
                 /\ Len(bsC') = Len(bsC) - 1
              \/ /\ bsPc'[p] = "cancelled"
                 /\ bsCtx[p]
                 /\ bsGot'[p] = [id |-> 0, buf |-> NilBuf, free |-> FALSE]
                 /\ bsC' = bsC]_vars

\* a cancelled Alloc has returned the sentinel while a slot was in the pool, and the slot is still there
C15_Witness ==
    /\ bsPc # <<>>
    /\ \E p \in BufProcs : bsPc[p] = "cancelled" /\ bsGot[p].buf = NilBuf /\ ~bsGot[p].free
    /\ Len(bsC) = 1
    /\ Cardinality(Holders) = BufSize - 1

(***************************************************************************)
(* The access-record middleware and the aggregator goroutine,              *)
(* getRecordMiddleWare, src/handler.go lines 190-320.  The handlers        *)
(* behind the middleware are a collaborator: what they wrote is an input.  *)
(* cr.WaitForEnable() and cr.Disabled() are not in src/: each is taken to  *)
(* return a one-shot channel, closed by the enable transition the caller   *)
(* waits for, respectively by the end of the lifetime it was asked in.     *)
(***************************************************************************)
\* cr.WaitForEnable(): the enable transition whose channel is returned
WaitForEnable == IF clEnabled THEN clLife ELSE clLife + 1

\* that channel is closed
enableClosed(k) == clLife >= k

\* cr.Disabled(): the lifetime whose channel is returned
Disabled == clLife

\* that channel is closed
disabledClosed(life) == clLife > life \/ (clLife = life /\ ~clEnabled)

\* statusResponseWriter.WriteHeader, lines 59-64, for the WriteHeader calls of the handlers
RECURSIVE WriteHeaders(_, _)
WriteHeaders(status, written) ==
    IF written = <<>> THEN status
    ELSE WriteHeaders(IF status = 0 THEN Head(written) ELSE status, Tail(written))

\* line 303: the early return of the middleware
statusGate(status) == status < 200 /\ 400 <= status

UserAgentCurl == <<"c","u","r","l","/","7"," ","x">>

Unknown == <<"[","U","n","k","n","o","w","n","]">>

\* lines 309-314: the record of a request; life is the lifetime the request ended in
recordOf(r) ==
    [used |-> 1, bytes |-> r.wrote,
     ua |-> Cut(Cut(r.ua, " ").before, "/").before,
     isRange |-> "skip-ua-count" \in DOMAIN r.extras,
     life |-> clLife]

\* lines 315-318: select { case recordCh <- rec: default: }
trySendOverCap(ch, rec) == [ch |-> Append(ch, rec), sent |-> "enqueued"]

trySend(ch, rec) ==
    IF Len(ch) < RecordCap THEN [ch |-> Append(ch, rec), sent |-> "enqueued"]
    ELSE [ch |-> ch, sent |-> "dropped"]

\* what the handlers behind the middleware did with a request
MwOutcome(pth, w, ua, x) == [path |-> pth, written |-> w, ua |-> ua, extras |-> x, wrote |-> 1]

\* a download served in full, a ranged one without User-Agent, a redirected one, a refused
\* one, one answered 404 after a backend's 200, and a measure
MwOutcomes ==
    LET dl0   == DownloadPrefix \o HelloMD5
        range == SetAccessInfo(<<>>, "skip-ua-count", "range")
    IN  { MwOutcome(dl0, <<200>>, UserAgentCurl, <<>>),
          MwOutcome(dl0, <<200>>, <<>>, range),
          MwOutcome(dl0, <<302>>, <<>>, <<>>),
          MwOutcome(dl0, <<403>>, UserAgentCurl, <<>>),
          MwOutcome(dl0, <<200, 404>>, UserAgentCurl, <<>>),
          MwOutcome(MeasurePrefix \o <<"5">>, <<200>>, UserAgentCurl, <<>>) }

NoAcc == [total |-> 0, totalUsed |-> 0, totalBytes |-> 0, uas |-> <<>>]

\* uas[ua]++
Incr(uas, ua) ==
    [k \in DOMAIN uas \cup {ua} |-> (IF k \in DOMAIN uas THEN uas[k] ELSE 0) + (IF k = ua THEN 1 ELSE 0)]

\* lines 233-238
addRecordRangeToo(acc, rec) ==
    [total |-> acc.total + 1, totalUsed |-> acc.totalUsed + rec.used,
     totalBytes |-> acc.totalBytes + rec.bytes,
     uas |-> Incr(acc.uas, rec.ua)]

addRecord(acc, rec) ==
    [total |-> acc.total + 1, totalUsed |-> acc.totalUsed + rec.used,
     totalBytes |-> acc.totalBytes + rec.bytes,
     uas |-> IF rec.isRange THEN acc.uas ELSE Incr(acc.uas, rec.ua)]

\* lines 219-224: cr.stats.Accesses[ua] += v, the empty ua counted as [Unknown]
RECURSIVE Fold(_, _, _)
Fold(acc, uas, keys) ==
    IF keys = {} THEN acc
    ELSE LET ua  == CHOOSE k \in keys : TRUE
             key == IF ua = <<>> THEN Unknown ELSE ua
             had == IF key \in DOMAIN acc THEN acc[key] ELSE 0
         IN  Fold([k \in DOMAIN acc \cup {key} |-> IF k = key THEN had + uas[ua] ELSE acc[k]],
                  uas, keys \ {ua})

\* lines 240-243: the accumulators after the disabled signal
disabledKeeps(acc) == acc

disabledReset(acc) == NoAcc

InitRecord ==
    /\ SignAtRest
    /\ RangeAtRest
    /\ ChainAtRest
    /\ HostAtRest
    /\ AtRest
    /\ IterAtRest
    /\ BufAtRest
    /\ clEnabled = FALSE /\ clLife = 0
    /\ recordCh = <<>>
    /\ agPc = "waitEnable" /\ agWait = 1 /\ agDisabled = 0
    /\ agAcc = NoAcc
    /\ accesses = <<>>
    /\ agLast = <<>> /\ mwLast = <<>> /\ mwServed = 0

\* the external cluster collaborator enables and disables the cluster
EnableCluster ==
    /\ ~clEnabled /\ clLife < MaxLives
    /\ clEnabled' = TRUE
    /\ clLife' = clLife + 1
    /\ UNCHANGED <<sgVars, crVars, reqVars, rgVars, chVars, hrVars, itVars, bsVars,
                   recordCh, agPc, agDisabled, agWait, agAcc, accesses, agLast, mwLast, mwServed>>

DisableCluster ==
    /\ clEnabled
    /\ clEnabled' = FALSE
    /\ UNCHANGED <<sgVars, crVars, reqVars, rgVars, chVars, hrVars, itVars, bsVars, clLife,
                   recordCh, agPc, agDisabled, agWait, agAcc, accesses, agLast, mwLast, mwServed>>

\* lines 255-319: the middleware around a request whose handlers did r
recordMiddleWare(r) ==
    /\ mwServed < MaxServed
    /\ LET status   == WriteHeaders(0, r.written)
           download == HasPrefix(r.path, DownloadPrefix)
           out      == IF statusGate(status) \/ ~download
                       THEN [ch |-> recordCh, sent |-> "none"]
                       ELSE trySend(recordCh, recordOf(r))
       IN  /\ recordCh' = out.ch
           /\ mwLast' = [download |-> download, status |-> status, before |-> Len(recordCh),
                         agPc |-> agPc, sent |-> out.sent]
    /\ mwServed' = mwServed + 1
    /\ UNCHANGED <<sgVars, crVars, reqVars, rgVars, chVars, hrVars, itVars, bsVars,
                   clEnabled, clLife, agPc, agDisabled, agWait, agAcc, accesses, agLast>>

\* lines 200-211: the aggregator sees the first enable
aggStart ==
    /\ agPc = "waitEnable" /\ enableClosed(agWait)
    /\ agPc' = "loop"
    /\ agDisabled' = Disabled
    /\ agAcc' = NoAcc
    /\ UNCHANGED <<sgVars, crVars, reqVars, rgVars, chVars, hrVars, itVars, bsVars,
                   clEnabled, clLife, recordCh, agWait, accesses, agLast, mwLast, mwServed>>

\* lines 214-231: case <-updateTicker.C
aggTick ==
    /\ agPc = "loop"
    /\ accesses' = Fold(accesses, agAcc.uas, DOMAIN agAcc.uas)
    /\ agAcc' = NoAcc
    /\ UNCHANGED <<sgVars, crVars, reqVars, rgVars, chVars, hrVars, itVars, bsVars,
                   clEnabled, clLife, recordCh, agPc, agDisabled, agWait, agLast, mwLast, mwServed>>

\* lines 232-238: case rec := <-recordCh
aggRecord ==
    /\ agPc = "loop" /\ recordCh # <<>>
    /\ recordCh' = Tail(recordCh)
    /\ agAcc' = addRecord(agAcc, Head(recordCh))
    /\ agLast' = [life |-> Head(recordCh).life, atLife |-> clLife, atEnabled |-> clEnabled]
    /\ UNCHANGED <<sgVars, crVars, reqVars, rgVars, chVars, hrVars, itVars, bsVars,
                   clEnabled, clLife, agPc, agDisabled, agWait, accesses, mwLast, mwServed>>

\* lines 239-245: case <-disabled
aggDisabled ==
    /\ agPc = "loop" /\ disabledClosed(agDisabled)
    /\ agAcc' = disabledReset(agAcc)
    /\ agPc' = "waitReenable"
    /\ agWait' = WaitForEnable
    /\ UNCHANGED <<sgVars, crVars, reqVars, rgVars, chVars, hrVars, itVars, bsVars,
                   clEnabled, clLife, recordCh, agDisabled, accesses, agLast, mwLast, mwServed>>

\* lines 246-247: case <-cr.WaitForEnable()
aggReenabled ==
    /\ agPc = "waitReenable" /\ enableClosed(agWait)
    /\ agDisabled' = Disabled
    /\ agPc' = "loop"
    /\ UNCHANGED <<sgVars, crVars, reqVars, rgVars, chVars, hrVars, itVars, bsVars,
                   clEnabled, clLife, recordCh, agWait, agAcc, accesses, agLast, mwLast, mwServed>>

\* lines 248-249: case <-time.After(time.Hour), the enable channel still open
aggHour ==
    /\ agPc = "waitReenable" /\ ~enableClosed(agWait)
    /\ agPc' = "terminated"
    /\ UNCHANGED <<sgVars, crVars, reqVars, rgVars, chVars, hrVars, itVars, bsVars,
                   clEnabled, clLife, recordCh, agDisabled, agWait, agAcc, accesses, agLast, mwLast, mwServed>>

NextRecord ==
    \/ EnableCluster
    \/ DisableCluster
    \/ \E r \in MwOutcomes : recordMiddleWare(r)
    \/ aggStart
    \/ aggTick
    \/ aggRecord
    \/ aggDisabled
    \/ aggReenabled
    \/ aggHour

SpecRecord == InitRecord /\ [][NextRecord]_vars

(***************************************************************************)
(* C16: the middleware never waits for the aggregator.  For a /download/   *)
(* request that ends 2xx or 3xx the record is put on recordCh unless the   *)
(* channel is at its capacity, and then it is dropped; the middleware can  *)
(* always complete, whatever the aggregator is doing (not started,         *)
(* running, waiting while disabled, terminated); recordCh never holds      *)
(* more than its capacity.                                                 *)
(***************************************************************************)
C16_NeverBlocks ==
    /\ Len(recordCh) <= RecordCap
    /\ mwServed < MaxServed => \A r \in MwOutcomes : ENABLED recordMiddleWare(r)
    /\ (mwLast # <<>> /\ mwLast.download /\ mwLast.status \in 200..399) =>
           mwLast.sent = IF mwLast.before < RecordCap THEN "enqueued" ELSE "dropped"

\* a 200 download is dropped at a channel that is full because the aggregator never started
C16_Witness ==
    /\ mwLast # <<>> /\ mwLast.download /\ mwLast.status = 200
    /\ mwLast.sent = "dropped" /\ mwLast.before = RecordCap
    /\ mwLast.agPc = "waitEnable"
    /\ Len(recordCh) = RecordCap

(***************************************************************************)
(* C17: a record goes to the aggregator only for a request whose path      *)
(* begins with /download/ and whose recorded status is in [200, 400): a    *)
(* download that ends 403, 404, 405, 500, 502 or 503 sends none.           *)
(***************************************************************************)
C17_OnlyServedBand ==
    (mwLast # <<>> /\ mwLast.sent # "none") =>
        (mwLast.download /\ mwLast.status \in 200..399)

(***************************************************************************)
(* C18: on the disabled signal the aggregator zeroes total, totalUsed,     *)
(* totalBytes and uas and waits; re-enabled in time it takes the new       *)
(* disabled signal and resumes with the accumulators still zero; when the  *)
(* hour passes without re-enable it terminates.  It terminates in no       *)
(* other way: not while enabled, not on a tick, not on a record.           *)
(***************************************************************************)
C18_Lifecycle ==
    [][/\ (agPc = "loop" /\ agPc' # "loop") =>
              /\ disabledClosed(agDisabled)
              /\ agPc' = "waitReenable"
              /\ agAcc' = [total |-> 0, totalUsed |-> 0, totalBytes |-> 0, uas |-> <<>>]
       /\ agPc = "waitReenable" =>
              /\ agAcc' = [total |-> 0, totalUsed |-> 0, totalBytes |-> 0, uas |-> <<>>]
              /\ agPc' = "loop" => (clLife >= agWait /\ agDisabled' = clLife)
              /\ agPc' = "terminated" => ~clEnabled
              /\ agPc' \in {"waitReenable", "loop", "terminated"}
       /\ agPc' = "terminated" => agPc \in {"waitReenable", "terminated"}
       /\ (agPc = "loop" /\ clEnabled /\ agDisabled = clLife) => agPc' = "loop"]_vars

\* a record was counted in lifetime 1, not flushed; in lifetime 2 the aggregator runs again from zero
C18_Witness ==
    /\ agPc = "loop" /\ clEnabled /\ clLife = 2 /\ agDisabled = 2
    /\ agLast # <<>> /\ agLast.atLife = 1 /\ agLast.atEnabled
    /\ accesses = <<>>
    /\ agAcc.total = 0 /\ agAcc.uas = <<>>

(***************************************************************************)
(* C19: nothing leaks from one lifetime of the cluster into a later one:   *)
(* the record of a request that ended before a disable transition, while   *)
(* the cluster was disabled or before the first enable is never added to   *)
(* the accumulators in an enabled lifetime that began after the request;   *)
(* records left in recordCh at the disable are not counted after the       *)
(* re-enable.                                                              *)
(***************************************************************************)
C19_NoLeak ==
    agLast # <<>> => ~(agLast.atEnabled /\ agLast.atLife > agLast.life)

(***************************************************************************)
(* The host-redirect middleware, GetHandler, src/handler.go lines 156-184. *)
(***************************************************************************)
\* strings.IndexByte and strings.LastIndexByte, counted from 1; 0: not found
Index(str, c) ==
    IF \E i \in 1..Len(str) : str[i] = c
    THEN CHOOSE i \in 1..Len(str) : str[i] = c /\ \A j \in 1..(i - 1) : str[j] # c
    ELSE 0

LastIndex(str, c) ==
    IF \E i \in 1..Len(str) : str[i] = c
    THEN CHOOSE i \in 1..Len(str) : str[i] = c /\ \A j \in (i + 1)..Len(str) : str[j] # c
    ELSE 0

\* net.SplitHostPort: [host, port, err]
SplitHostPort(hostport) ==
    LET i    == LastIndex(hostport, ":")
        fail == [host |-> <<>>, port |-> <<>>, err |-> TRUE]
        end  == Index(hostport, "]")
    IN  IF i = 0 THEN fail
        ELSE IF hostport[1] = "["
        THEN IF end = 0 \/ end + 1 # i THEN fail
             ELSE IF Index(SubSeq(hostport, 2, Len(hostport)), "[") # 0 THEN fail
             ELSE IF Index(SubSeq(hostport, end + 1, Len(hostport)), "]") # 0 THEN fail
             ELSE [host |-> SubSeq(hostport, 2, end - 1),
                   port |-> SubSeq(hostport, i + 1, Len(hostport)), err |-> FALSE]
        ELSE IF Index(SubSeq(hostport, 1, i - 1), ":") # 0 THEN fail
             ELSE IF Index(hostport, "[") # 0 \/ Index(hostport, "]") # 0 THEN fail
             ELSE [host |-> SubSeq(hostport, 1, i - 1),
                   port |-> SubSeq(hostport, i + 1, Len(hostport)), err |-> FALSE]

\* net.JoinHostPort
JoinHostPort(host, port) ==
    IF Index(host, ":") # 0 THEN <<"[">> \o host \o <<"]", ":">> \o port
    ELSE host \o <<":">> \o port

\* strconv.Itoa of a port number
RECURSIVE Itoa(_)
Itoa(n) == IF n < 10 THEN <<ToString(n)>> ELSE Itoa(n \div 10) \o <<ToString(n % 10)>>

\* line 164: strings.ToLower(host)
hostKeepCase(host) == host

ToLower(host) == [i \in 1..Len(host) |-> Lower(host[i])]

\* url.URL.String() of a request URL given a scheme and a host
URLString(scheme, host, path, rawQuery) ==
    scheme \o <<":", "/", "/">> \o host
    \o (IF path # <<>> /\ path[1] # "/" /\ host # <<>> THEN <<"/">> ELSE <<>>)
    \o path
    \o (IF rawQuery # <<>> THEN <<"?">> \o rawQuery ELSE <<>>)

Https == <<"h","t","t","p","s">>

HostA == <<"a",".","i","o">>

HostB == <<"b",".","i","o">>

\* lower-case host names, as the configuration is read
PublicHostLists == UNION {[1..n -> {HostA, HostB}] : n \in 0..MaxHosts}

PublicPorts == {443, 8080}

\* Host headers, each with the host name its sender means: none, a name, a name in
\* capitals, a name with a port, a port alone
HostHeaders ==
    { [raw |-> <<>>, name |-> <<>>],
      [raw |-> HostA, name |-> HostA],
      [raw |-> <<"A",".","I","o">>, name |-> HostA],
      [raw |-> HostB \o <<":","8","0">>, name |-> HostB],
      [raw |-> <<"B",".","i","o",":","8","0">>, name |-> HostB],
      [raw |-> <<":","8","0">>, name |-> <<>>] }

RequestURIs == {[path |-> <<"/">>, rawQuery |-> <<>>],
                [path |-> DownloadPrefix \o <<"a","b">>, rawQuery |-> <<"s","=","1","&","e","=","2">>]}

NoOut == [status |-> 0, location |-> <<>>, contentLength |-> <<>>, next |-> 0]

InitHost ==
    /\ SignAtRest
    /\ RangeAtRest
    /\ ChainAtRest
    /\ AtRest
    /\ IterAtRest
    /\ BufAtRest
    /\ RecordAtRest
    /\ \E hs \in PublicHostLists, pp \in PublicPorts : hrCfg = [publicHosts |-> hs, publicPort |-> pp]
    /\ \E h \in HostHeaders, u \in RequestURIs :
          hrReq = [host |-> h.raw, name |-> h.name, path |-> u.path, rawQuery |-> u.rawQuery]
    /\ hrOut = <<>>

\* lines 158-183: the middleware, for the request hrReq
hostRedirect ==
    /\ hrOut = <<>>
    /\ LET split == SplitHostPort(hrReq.host)
           host  == IF split.err THEN hrReq.host ELSE split.host
           lower == ToLower(host)
       IN  IF host # <<>> /\ Len(hrCfg.publicHosts) > 0
              /\ ~(\E k \in 1..Len(hrCfg.publicHosts) : lower = hrCfg.publicHosts[k])
           THEN hrOut' = [status |-> 302,
                          location |-> URLString(Https,
                                           JoinHostPort(hrCfg.publicHosts[1], Itoa(hrCfg.publicPort)),
                                           hrReq.path, hrReq.rawQuery),
                          contentLength |-> <<"0">>,
                          next |-> 0]
           ELSE hrOut' = [NoOut EXCEPT !.next = 1]
    /\ UNCHANGED <<sgVars, crVars, reqVars, rgVars, chVars, itVars, bsVars, recVars, hrCfg, hrReq>>

\* the response is sent; the next request arrives
hostNextRequest ==
    /\ hrOut # <<>>
    /\ \E h \in HostHeaders, u \in RequestURIs :
          hrReq' = [host |-> h.raw, name |-> h.name, path |-> u.path, rawQuery |-> u.rawQuery]
    /\ hrOut' = <<>>
    /\ UNCHANGED <<sgVars, crVars, reqVars, rgVars, chVars, itVars, bsVars, recVars, hrCfg>>

NextHost == hostRedirect \/ hostNextRequest

SpecHost == InitHost /\ [][NextHost]_vars

(***************************************************************************)
(* C20: if the public-host list is not empty and the request's host (port  *)
(* ignored, lower-cased) is not in it, the answer is 302 with Location     *)
(* https://{publicHosts[0]}:{publicPort}{path and query} and               *)
(* Content-Length 0, and the next middleware is not invoked; if the list   *)
(* is empty or the host is in it, the next middleware is invoked exactly   *)
(* once and the middleware writes nothing.  As stated                      *)
(* (C20_RedirectUnlessListed) it fails for a request without a host name:  *)
(* that one is passed on whatever the list is (C20_RedirectNamedUnlisted). *)
(***************************************************************************)
Listed == \E k \in 1..Len(hrCfg.publicHosts) : hrCfg.publicHosts[k] = hrReq.name

\* https://{publicHosts[0]}:{publicPort}{path}?{query}
ExpectedLocation ==
    Https \o <<":", "/", "/">> \o hrCfg.publicHosts[1] \o <<":">>
    \o (IF hrCfg.publicPort = 443 THEN <<"4","4","3">> ELSE <<"8","0","8","0">>)
    \o hrReq.path \o (IF hrReq.rawQuery = <<>> THEN <<>> ELSE <<"?">> \o hrReq.rawQuery)

Redirected ==
    hrOut = [status |-> 302, location |-> ExpectedLocation, contentLength |-> <<"0">>, next |-> 0]

PassedOn ==
    hrOut = [status |-> 0, location |-> <<>>, contentLength |-> <<>>, next |-> 1]

C20_RedirectUnlessListed ==
    hrOut # <<>> =>
        IF hrCfg.publicHosts # <<>> /\ ~Listed THEN Redirected ELSE PassedOn

C20_RedirectNamedUnlisted ==
    hrOut # <<>> =>
        IF hrCfg.publicHosts # <<>> /\ hrReq.name # <<>> /\ ~Listed THEN Redirected ELSE PassedOn

\* Host: B.io:80 is not among <<a.io>>: 302 to https://a.io:8080/download/ab?s=1&e=2
C20_Witness ==
    /\ hrOut # <<>> /\ hrOut.status = 302 /\ hrOut.next = 0
    /\ hrReq.host = <<"B",".","i","o",":","8","0">>
    /\ hrCfg.publicHosts = <<HostA>> /\ hrCfg.publicPort = 8080
    /\ hrOut.location = Https \o <<":","/","/","a",".","i","o",":","8","0","8","0">>
                        \o DownloadPrefix \o <<"a","b","?","s","=","1","&","e","=","2">>

(***************************************************************************)
(* C21: every record the aggregator takes adds 1 to total, its used and    *)
(* bytes to totalUsed and totalBytes, and 1 to uas[ua] iff it is no range  *)
(* request.  Accesses changes only at a tick: every uas[ua] is added to    *)
(* Accesses[ua], the empty ua to [Unknown], and the accumulators are       *)
(* zeroed.  So what Accesses and uas hold together never exceeds the       *)
(* records taken, and no record is counted in Accesses twice.              *)
(***************************************************************************)
\* the sum of the values of a map
RECURSIVE SumOver(_, _)
SumOver(m, keys) ==
    IF keys = {} THEN 0
    ELSE LET k == CHOOSE x \in keys : TRUE IN m[k] + SumOver(m, keys \ {k})

SumOf(m) == SumOver(m, DOMAIN m)

Count(m, k) == IF k \in DOMAIN m THEN m[k] ELSE 0

C21_Accounting ==
    [][/\ (recordCh # <<>> /\ recordCh' = Tail(recordCh)) =>
              LET rec == Head(recordCh)
              IN  /\ agAcc'.total = agAcc.total + 1
                  /\ agAcc'.totalUsed = agAcc.totalUsed + rec.used
                  /\ agAcc'.totalBytes = agAcc.totalBytes + rec.bytes
                  /\ SumOf(agAcc'.uas) = SumOf(agAcc.uas) + (IF rec.isRange THEN 0 ELSE 1)
                  /\ Count(agAcc'.uas, rec.ua) = Count(agAcc.uas, rec.ua) + (IF rec.isRange THEN 0 ELSE 1)
                  /\ accesses' = accesses
       /\ accesses' # accesses =>
              /\ agPc = "loop" /\ agPc' = "loop" /\ recordCh' = recordCh
              /\ agAcc' = [total |-> 0, totalUsed |-> 0, totalBytes |-> 0, uas |-> <<>>]
              /\ SumOf(accesses') = SumOf(accesses) + SumOf(agAcc.uas)
              /\ \A ua \in DOMAIN agAcc.uas \ {<<>>} :
                     Count(accesses', ua) = Count(accesses, ua) + agAcc.uas[ua]
              /\ Count(accesses', Unknown) = Count(accesses, Unknown) + Count(agAcc.uas, <<>>)
       /\ SumOf(accesses') + SumOf(agAcc'.uas) + Len(recordCh') <= mwServed'
       /\ SumOf(agAcc'.uas) <= agAcc'.total]_vars

\* two records were taken and flushed: one of curl, one without User-Agent
C21_Witness ==
    /\ accesses # <<>>
    /\ DOMAIN accesses = {Unknown, <<"c","u","r","l">>}
    /\ accesses[Unknown] = 1 /\ accesses[<<"c","u","r","l">>] = 1
    /\ agAcc.total = 0 /\ recordCh = <<>>

(***************************************************************************)
(* The Range header of a download that has passed the enabled gate:        *)
(* handleDownload lines 447-451 set the extra, getRecordMiddleWare line    *)
(* 314 reads it into the record.                                           *)
(***************************************************************************)
RangeAlphabet == {"0", "5", "-", ",", " ", "x"}

Bytes(str) == BytesPrefix \o str

\* no header; bytes= followed by every short text; the usual forms; a header of another unit
RangeHeaders ==
    {<<>>}
    \cup {Bytes(str) : str \in StringsUpTo(RangeAlphabet, MaxRangeLen)}
    \cup { Bytes(<<"1","0","0","-","2","0","0">>), Bytes(<<"1","0","0","-">>),
           Bytes(<<"0","-","9","9">>), Bytes(<<"-","5","0","0">>),
           Bytes(<<" ","5"," ","-","9",",","0","-">>),
           <<"5","-">>, <<"i","t","e","m","s","=","5","-">> }

InitRange ==
    /\ SignAtRest
    /\ AtRest
    /\ IterAtRest
    /\ BufAtRest
    /\ RecordAtRest
    /\ HostAtRest
    /\ ChainAtRest
    /\ rgHeader \in RangeHeaders
    /\ rgOut = <<>>

\* the request is handled: its extras after lines 447-451, and rec.isRange of line 314
handleRange ==
    /\ rgOut = <<>>
    /\ LET info == markRange(<<>>, rgHeader)
       IN  rgOut' = [extras |-> info,
                     isRange |-> recordOf([ua |-> <<>>, wrote |-> 0, extras |-> info]).isRange]
    /\ UNCHANGED <<sgVars, crVars, reqVars, itVars, bsVars, recVars, hrVars, chVars, rgHeader>>

\* the next request arrives
nextRange ==
    /\ rgOut # <<>>
    /\ rgHeader' \in RangeHeaders
    /\ rgOut' = <<>>
    /\ UNCHANGED <<sgVars, crVars, reqVars, itVars, bsVars, recVars, hrVars, chVars>>

NextRange == handleRange \/ nextRange

SpecRange == InitRange /\ [][NextRange]_vars

(***************************************************************************)
(* C22: the extra skip-ua-count = "range" is set, and the record's isRange *)
(* is true, iff the Range header's first comma-delimited range has a start *)
(* that is not zero: bytes=100-200 and bytes=100- are marked; bytes=0-,    *)
(* bytes=0-99, no header, and a first range without a start that parses    *)
(* are not.  As stated (C22_MarkedIffNonZeroStart) it fails for a first    *)
(* range with an empty start, such as bytes=-500: the code takes the start *)
(* of that one as -1 and marks it (C22_MarkedIffNonZeroOrNoStart).         *)
(***************************************************************************)
\* the part of str before the first c, all of it when there is none
RECURSIVE Before(_, _)
Before(str, c) ==
    IF str = <<>> \/ Head(str) = c THEN <<>> ELSE <<Head(str)>> \o Before(Tail(str), c)

\* str without the blanks at its ends
Stripped(str) ==
    LET inked == {i \in 1..Len(str) : str[i] \notin {" ", "\t"}}
    IN  IF inked = {} THEN <<>>
        ELSE SubSeq(str, CHOOSE i \in inked : \A j \in inked : i <= j,
                         CHOOSE i \in inked : \A j \in inked : j <= i)

\* the first range of a bytes= header has a dash
HasFirstRange ==
    /\ Len(rgHeader) >= 6 /\ SubSeq(rgHeader, 1, 6) = <<"b","y","t","e","s","=">>
    /\ \E i \in 1..Len(Before(SubSeq(rgHeader, 7, Len(rgHeader)), ",")) :
           Before(SubSeq(rgHeader, 7, Len(rgHeader)), ",")[i] = "-"

\* the text of its start
StartText == Stripped(Before(SubSeq(rgHeader, 7, Len(rgHeader)), "-"))

\* that text is a decimal number other than zero
NonZeroStart ==
    /\ StartText # <<>>
    /\ \A i \in 1..Len(StartText) : StartText[i] \in DecimalDigits
    /\ \E i \in 1..Len(StartText) : StartText[i] # "0"

IsMarked ==
    /\ "skip-ua-count" \in DOMAIN rgOut.extras
    /\ rgOut.extras["skip-ua-count"] = "range"
    /\ rgOut.isRange

IsUnmarked == rgOut.extras = <<>> /\ ~rgOut.isRange

C22_MarkedIffNonZeroStart ==
    rgOut # <<>> =>
        IF HasFirstRange /\ NonZeroStart THEN IsMarked ELSE IsUnmarked

C22_MarkedIffNonZeroOrNoStart ==
    rgOut # <<>> =>
        IF HasFirstRange /\ (NonZeroStart \/ StartText = <<>>) THEN IsMarked ELSE IsUnmarked

\* bytes=-500 is marked
C22_Witness ==
    /\ rgOut # <<>>
    /\ rgHeader = <<"b","y","t","e","s","=","-","5","0","0">>
    /\ IsMarked

(***************************************************************************)
(* httpMiddleWareHandler: the chain of middlewares in front of m.final.    *)
(* A middleware is any MiddleWareFunc: it invokes its next handler some    *)
(* number of times (0..MaxNextCalls) before it returns.                    *)
(***************************************************************************)
\* the handler getNext returns for j == len(m.middles): m.final itself
FinalHandler == 0

TooMuch == "httpMiddleWareHandler: called getNext too much times"

Twice == "httpMiddleWareHandler: Called next function twice"

\* getNext (lines 538-558): [i, wrappers, handler, panic]; handler is FinalHandler
\* or the index of the new closure, made with called = false
getNext(i, wrappers) ==
    IF i > chMiddles
    THEN [i |-> i, wrappers |-> wrappers, handler |-> FinalHandler, panic |-> TooMuch]
    ELSE IF i = chMiddles
    THEN [i |-> i + 1, wrappers |-> wrappers, handler |-> FinalHandler, panic |-> ""]
    ELSE [i |-> i + 1,
          wrappers |-> Append(wrappers, [mid |-> i, called |-> FALSE]),
          handler |-> Len(wrappers) + 1,
          panic |-> ""]

\* a panic unwinds the running handlers in stack: up to a middleware that
\* recovers in a deferred call (as the first of GetHandler does, lines 149-154)
\* and so returns, or out of ServeHTTP when none does
chainPanics(msg, stack) ==
    \E k \in 0..Len(stack) :
        /\ chPc' = IF k = 0 THEN "panicked" ELSE IF k = 1 THEN "done" ELSE "running"
        /\ chPanic' = msg
        /\ chStack' = SubSeq(stack, 1, k - 1)
        /\ UNCHANGED <<chMiddles, chI, chWrappers, chTrace>>

\* handler.ServeHTTP(rw, req) with the running handlers in stack: m.final is
\* entered (it has no next of its own); a closure of getNext (lines 551-557) panics when called before,
\* and otherwise sets called, takes getNext() and enters its middleware
invoke(handler, i, wrappers, stack) ==
    IF handler = FinalHandler
    THEN /\ chTrace' = Append(chTrace, chMiddles)
         /\ chStack' = Append(stack, [mid |-> chMiddles, next |-> FinalHandler, nextCalls |-> 0])
         /\ chPc' = "running"
         /\ chI' = i
         /\ chWrappers' = wrappers
         /\ UNCHANGED <<chMiddles, chPanic>>
    ELSE IF wrappers[handler].called THEN chainPanics(Twice, stack)
    ELSE LET g == getNext(i, [wrappers EXCEPT ![handler].called = TRUE])
         IN  IF g.panic # "" THEN chainPanics(g.panic, stack)
             ELSE /\ chTrace' = Append(chTrace, wrappers[handler].mid)
                  /\ chStack' = Append(stack, [mid |-> wrappers[handler].mid,
                                               next |-> g.handler, nextCalls |-> 0])
                  /\ chPc' = "running"
                  /\ chI' = g.i
                  /\ chWrappers' = g.wrappers
                  /\ UNCHANGED <<chMiddles, chPanic>>

InitChain ==
    /\ SignAtRest
    /\ AtRest
    /\ IterAtRest
    /\ BufAtRest
    /\ RecordAtRest
    /\ HostAtRest
    /\ RangeAtRest
    /\ ChainAtRest

\* Use (lines 563-565), one middleware at a time, before the handler serves
Use ==
    /\ chPc = "idle"
    /\ chMiddles < MaxMiddles
    /\ chMiddles' = chMiddles + 1
    /\ UNCHANGED <<chPc, chI, chWrappers, chStack, chTrace, chPanic>>
    /\ UNCHANGED <<sgVars, crVars, reqVars, itVars, bsVars, recVars, hrVars, rgVars>>

\* ServeHTTP (lines 536-561): i := 0, then getNext().ServeHTTP(rw, req)
chainServeHTTP ==
    /\ chPc = "idle"
    /\ LET g == getNext(0, <<>>)
       IN  invoke(g.handler, g.i, g.wrappers, <<>>)
    /\ UNCHANGED <<sgVars, crVars, reqVars, itVars, bsVars, recVars, hrVars, rgVars>>

\* the running middleware invokes next.ServeHTTP(rw, req)
callNext ==
    /\ chPc = "running"
    /\ chStack # <<>>
    /\ LET top == chStack[Len(chStack)]
       IN  /\ top.mid < chMiddles
           /\ top.nextCalls < MaxNextCalls
           /\ invoke(top.next, chI, chWrappers,
                     [chStack EXCEPT ![Len(chStack)].nextCalls = top.nextCalls + 1])
    /\ UNCHANGED <<sgVars, crVars, reqVars, itVars, bsVars, recVars, hrVars, rgVars>>

\* the running middleware, or m.final, returns
midReturn ==
    /\ chPc = "running"
    /\ chStack # <<>>
    /\ chStack' = SubSeq(chStack, 1, Len(chStack) - 1)
    /\ chPc' = IF Len(chStack) = 1 THEN "done" ELSE "running"
    /\ UNCHANGED <<chMiddles, chI, chWrappers, chTrace, chPanic>>
    /\ UNCHANGED <<sgVars, crVars, reqVars, itVars, bsVars, recVars, hrVars, rgVars>>

\* the next request: ServeHTTP starts again with its own i
chainNextRequest ==
    /\ chPc \in {"done", "panicked"}
    /\ chPc' = "idle"
    /\ chI' = 0
    /\ chWrappers' = <<>>
    /\ chStack' = <<>>
    /\ chTrace' = <<>>
    /\ chPanic' = ""
    /\ UNCHANGED chMiddles
    /\ UNCHANGED <<sgVars, crVars, reqVars, itVars, bsVars, recVars, hrVars, rgVars>>

NextChain == Use \/ chainServeHTTP \/ callNext \/ midReturn \/ chainNextRequest

SpecChain == InitChain /\ [][NextChain]_vars

(***************************************************************************)
(* C23: within one request every middleware, the last registered one       *)
(* included, gets a next handler that panics when invoked a second time,   *)
(* so each middleware and the final handler run at most once, in           *)
(* registration order.                                                     *)
(***************************************************************************)
\* what has run is strictly in registration order: nothing ran twice
RanOnceInOrder ==
    \A a, b \in 1..Len(chTrace) : a < b => chTrace[a] < chTrace[b]

\* a middleware that has invoked its next twice has ended the request in a panic
SecondNextPanics ==
    \A k \in 1..Len(chStack) : chStack[k].nextCalls <= 1

C23_NextOnce == RanOnceInOrder /\ SecondNextPanics

(***************************************************************************)
(* C24: a download that got as far as the file index and that no backend   *)
(* served (none returned (sz >= 0, nil)) is answered by the dispatcher     *)
(* with 404, 502 or 500: also when every backend consulted returned a soft *)
(* miss, and also when there is no backend.                                *)
(***************************************************************************)
PastIndex == \E k \in DOMAIN calls : calls[k].op = "CachedFileSize"

Unserved == pc = "done" /\ PastIndex /\ ServedAt = {}

C24_UnservedIsError == Unserved => HandlerErrorWritten

(***************************************************************************)
(* C25: the expectedSize handed to every ServeDownload call of a request   *)
(* is the size the file index holds for the hash at the time of the walk:  *)
(* the cached size on a hit, the size DownloadFile has populated on a      *)
(* miss.                                                                   *)
(***************************************************************************)
C25_ExpectedSizeIsIndexed ==
    \A k \in DOMAIN visits :
        /\ dl.hash \in DOMAIN fileset
        /\ visits[k].size = fileset[dl.hash]

(***************************************************************************)
(* The access records under fair scheduling: the aggregator goroutine is   *)
(* scheduled, so a case of its select that stays ready is taken.  The      *)
(* hour of line 248 may or may not elapse, and the cluster and the         *)
(* requests are under no obligation.                                       *)
(***************************************************************************)
aggFair ==
    /\ WF_vars(aggStart)
    /\ WF_vars(aggTick)
    /\ WF_vars(aggRecord)
    /\ WF_vars(aggDisabled)
    /\ WF_vars(aggReenabled)

SpecRecordLive == InitRecord /\ [][NextRecord]_vars /\ aggFair

(***************************************************************************)
(* C26: when the cluster is enabled (or enabled again) and stays enabled,  *)
(* every record accepted into the channel is in the end taken by the       *)
(* aggregator and flushed by a later tick, whatever enables and disables   *)
(* came before, a disabled interval of more than one hour included.        *)
(***************************************************************************)
FlushedAll == recordCh = <<>> /\ agAcc = NoAcc

C26_EventuallyFlushed == <>[]clEnabled => <>[]FlushedAll

====
